---- MODULE Spec2Model ----
(***************************************************************************)
(* Model of the-corporations-email: the persistent store (storage.py), the *)
(* Email model (models.py) and the thread / visibility services            *)
(* (services.py, app.py).                                                  *)
(*                                                                         *)
(* Representation.                                                         *)
(*   - identifiers (id, isResponseTo) are TLA+ strings;                    *)
(*   - names, subject, content and timestamps are sequences of one         *)
(*     character strings, so that strip(), lower() and the string          *)
(*     comparison used by sort() are computed, not assumed;                *)
(*   - the dict EmailStorage._emails is a sequence of Email records in     *)
(*     dict insertion order, with pairwise different ids (its keys);       *)
(*   - a JSON value read from disk is a tagged record [t |-> type, ...].   *)
(***************************************************************************)
EXTENDS Integers, Sequences, FiniteSets, TLC

VARIABLES
    phase,          \* "constructed", "ready" (initialize returned), "failed" (it raised)
    emails,         \* EmailStorage._emails, in dict insertion order
    quarantined,    \* EmailStorage._quarantined, a JSON value (an array when well formed)
    diskEmails,     \* content of data/emails.json
    diskQuarantine, \* content of data/quarantine.json
    backups,        \* files created by _backup_file, in creation order
    ret,            \* what the last call returned
    pc,             \* per thread: the statement it is at, "idle" between calls
    loc,            \* per thread: the call it makes, its arguments and local variables
    cls,            \* the class attributes EmailStorage._instance, _initialized, _lock
    instances,      \* the EmailStorage objects created so far, with their attributes
    epoch           \* history: resets so far, and whether one ran during another call

vars == <<phase, emails, quarantined, diskEmails, diskQuarantine, backups, ret,
          pc, loc, cls, instances, epoch>>

\* the variables of the concurrent specifications; the sequential ones run
\* one caller on one constructed instance and leave them alone
threadVars == <<pc, loc, cls, instances, epoch>>

(***************************************************************************)
(* Bounds of the model.                                                    *)
(***************************************************************************)
MaxStore == 3       \* most messages held by the store in SpecThread
MaxWalk == 5        \* evaluation budget of the find_thread_root loop
MaxRecords == 3     \* most raw records of a message document in SpecInit
MaxQuarantine == 3  \* most quarantine entries in SpecQuarantine
MaxNames == 1       \* a mark call starts only on a readBy / deletedBy shorter than this
MaxResets == 1      \* most calls of reset_instance in SpecSingleton
MaxItems == 25      \* most messages of the store in SpecPages
MaxPage == 4        \* largest page number asked for in SpecPages
MaxSent == 2        \* most messages sent in SpecSend
MaxAdded == 1       \* most add_to_quarantine calls in SpecLive
MaxPerPage == 3     \* largest page size in SpecPages, PAGE_SIZE_INBOX apart

(***************************************************************************)
(* Python None for an Email field holding an identifier.  No identifier of *)
(* the model is this string.                                               *)
(***************************************************************************)
None == "<None>"

(***************************************************************************)
(* Sequence helpers.                                                       *)
(***************************************************************************)
Range(s) == {s[i] : i \in 1..Len(s)}

RECURSIVE SeqFilterOut(_, _)
\* [e for e in s if e.id != id]
SeqFilterOut(s, id) ==
    IF s = <<>> THEN <<>>
    ELSE IF Head(s).id = id THEN SeqFilterOut(Tail(s), id)
         ELSE <<Head(s)>> \o SeqFilterOut(Tail(s), id)

(***************************************************************************)
(* str.strip() and str.lower() on character sequences.                     *)
(***************************************************************************)
LowerChar(c) ==
    CASE c = "A" -> "a"
      [] c = "B" -> "b"
      [] c = "C" -> "c"
      [] c = "R" -> "r"
      [] OTHER -> c

Lower(s) == [i \in 1..Len(s) |-> LowerChar(s[i])]

RECURSIVE LStrip(_)
LStrip(s) == IF s # <<>> /\ Head(s) = " " THEN LStrip(Tail(s)) ELSE s

RECURSIVE RStrip(_)
RStrip(s) ==
    IF s # <<>> /\ s[Len(s)] = " " THEN RStrip(SubSeq(s, 1, Len(s) - 1)) ELSE s

Strip(s) == RStrip(LStrip(s))

\* models.normalize_name
normalize_name(name) == Lower(Strip(name))

RECURSIVE NormalizeFrom(_, _)
NormalizeFrom(names, acc) ==
    IF names = <<>> THEN acc
    ELSE LET n == normalize_name(Head(names))
         IN  IF n # <<>> /\ n \notin Range(acc)
             THEN NormalizeFrom(Tail(names), Append(acc, n))
             ELSE NormalizeFrom(Tail(names), acc)

\* models.normalize_name_list
normalize_name_list(names) == NormalizeFrom(names, <<>>)

(***************************************************************************)
(* Python's comparison of two str values (code point order).               *)
(***************************************************************************)
CharCode(c) ==
    CASE c = " " -> 32
      [] c = "1" -> 49
      [] c = "2" -> 50
      [] c = "3" -> 51
      [] c = "A" -> 65
      [] c = "B" -> 66
      [] c = "C" -> 67
      [] c = "Z" -> 90
      [] c = "a" -> 97
      [] c = "b" -> 98
      [] c = "c" -> 99
      [] OTHER -> 120

RECURSIVE StrLess(_, _)
StrLess(s, t) ==
    IF t = <<>> THEN FALSE
    ELSE IF s = <<>> THEN TRUE
    ELSE IF CharCode(Head(s)) < CharCode(Head(t)) THEN TRUE
    ELSE IF CharCode(Head(s)) > CharCode(Head(t)) THEN FALSE
    ELSE StrLess(Tail(s), Tail(t))

(***************************************************************************)
(* uuid.UUID(value) succeeds exactly on the identifier-shaped strings.     *)
(***************************************************************************)
UUIDs == {"u1", "u2", "u3", "u4"}

validate_uuid(value) == value \in UUIDs

(***************************************************************************)
(* models.Email: the constructor and __post_init__.                        *)
(***************************************************************************)
\* the checks of __post_init__ that raise ValueError
EmailPostInitOk(to, from_, is_response_to) ==
    /\ normalize_name_list(to) # <<>>
    /\ normalize_name(from_) # <<>>
    /\ (is_response_to # None => validate_uuid(is_response_to))

\* the object the constructor builds when __post_init__ raises nothing
Email(id, to, from_, subject, content, timestamp, is_response_to, read_by, deleted_by) ==
    [ id |-> id,
      to |-> normalize_name_list(to),
      from_ |-> normalize_name(from_),
      subject |-> subject,
      content |-> content,
      timestamp |-> timestamp,
      is_response_to |-> is_response_to,
      read_by |-> IF read_by # <<>> THEN normalize_name_list(read_by) ELSE <<>>,
      deleted_by |-> IF deleted_by # <<>> THEN normalize_name_list(deleted_by) ELSE <<>> ]

\* Email.mark_read_by
mark_read_by(e, name) ==
    LET normalized == normalize_name(name)
    IN  IF normalized \notin Range(e.read_by)
        THEN [e EXCEPT !.read_by = Append(@, normalized)]
        ELSE e

\* mark_deleted_by written as a copy of mark_read_by that still appends to read_by
mark_deleted_by_IntoReadBy(e, name) ==
    LET normalized == normalize_name(name)
    IN  IF normalized \notin Range(e.read_by)
        THEN [e EXCEPT !.read_by = Append(@, normalized)]
        ELSE e

\* Email.mark_deleted_by
mark_deleted_by(e, name) ==
    LET normalized == normalize_name(name)
    IN  IF normalized \notin Range(e.deleted_by)
        THEN [e EXCEPT !.deleted_by = Append(@, normalized)]
        ELSE e

(***************************************************************************)
(* JSON values.  A scalar is [t |-> type, s |-> text]; an array of scalars *)
(* is [t |-> "list", items |-> <<scalar, ...>>].                           *)
(***************************************************************************)
JStr(s) == [t |-> "str", s |-> s]
JNullId == [t |-> "null", s |-> ""]
JList(items) == [t |-> "list", items |-> items]
JNames(names) == JList([i \in 1..Len(names) |-> JStr(names[i])])

\* Email.to_dict
to_dict(e) ==
    [ kind |-> "object",
      id |-> JStr(e.id),
      to |-> JNames(e.to),
      from |-> JStr(e.from_),
      subject |-> JStr(e.subject),
      content |-> JStr(e.content),
      timestamp |-> JStr(e.timestamp),
      isResponseTo |-> IF e.is_response_to = None THEN JNullId ELSE JStr(e.is_response_to),
      readBy |-> JNames(e.read_by),
      deletedBy |-> JNames(e.deleted_by),
      extra |-> FALSE ]

(***************************************************************************)
(* The two on-disk documents: {"version": v, <collection key>: [...]}.     *)
(* A file is [state, top, version, coll]: state is "absent", "unparseable" *)
(* or "parsed"; top is the type of the parsed JSON value ("object", "null" *)
(* or "other"); version and coll are the values of the two keys, with type *)
(* "missing" for an absent key.                                            *)
(***************************************************************************)
Document(version, coll) ==
    [state |-> "parsed", top |-> "object", version |-> version, coll |-> coll]

VersionOne == [t |-> "int", v |-> 1]

\* the data written by _create_empty_emails_file / _create_empty_quarantine_file
EmptyDocument == Document(VersionOne, JList(<<>>))

\* a save that writes an empty collection
EmailsDocumentEmpty(store) == Document(VersionOne, JList(<<>>))

\* the data written by _save_emails
EmailsDocument(store) ==
    Document(VersionOne, JList([i \in 1..Len(store) |-> to_dict(store[i])]))

\* the data written by _save_quarantine; q is the value of _quarantined
QuarantineDocument(q) == Document(VersionOne, q)

(***************************************************************************)
(* The dict _emails.                                                       *)
(***************************************************************************)
StoredIds(store) == {store[i].id : i \in 1..Len(store)}

\* email_id in self._emails
Stored(store, id) == id \in StoredIds(store)

IndexOf(store, id) == CHOOSE i \in 1..Len(store) : store[i].id = id

\* self._emails.get(email_id): <<the email>>, or <<>> for None
DictGet(store, id) == IF Stored(store, id) THEN <<store[IndexOf(store, id)]>> ELSE <<>>

\* an assignment that adds an entry even when the key is present
DictSetAppends(store, e) == Append(store, e)

\* self._emails[email.id] = email: an existing key keeps its position
DictSet(store, e) ==
    IF Stored(store, e.id)
    THEN [store EXCEPT ![IndexOf(store, e.id)] = e]
    ELSE Append(store, e)

\* del self._emails[email_id]
DictDel(store, id) == SeqFilterOut(store, id)

(***************************************************************************)
(* What a call returned.                                                   *)
(***************************************************************************)
NoRet ==
    [ op |-> "none", id |-> "", viewer |-> <<>>, found |-> FALSE, email |-> <<>>,
      list |-> <<>>, steps |-> 0, exit |-> "", visited |-> {},
      args |-> <<>>, pagination |-> <<>> ]

Ret(op, id) == [NoRet EXCEPT !.op = op, !.id = id]

(***************************************************************************)
(* services.py: the thread-graph engine.  Every function reads the store   *)
(* through get_by_id / get_all; here it is a function of the store content.*)
(***************************************************************************)
RECURSIVE RootWalkNoCycleCheck(_, _, _, _, _)
\* the loop of find_thread_root without its visited check
RootWalkNoCycleCheck(store, current_email, visited, steps, budget) ==
    LET parent_id == current_email.is_response_to
        done(why) == [ found |-> TRUE, email |-> <<current_email>>, steps |-> steps,
                       exit |-> why, visited |-> visited ]
    IN  IF parent_id = None THEN done("root")
        ELSE IF DictGet(store, parent_id) = <<>> THEN done("orphan")
        ELSE IF budget = 0 THEN done("budget")
        ELSE RootWalkNoCycleCheck(store, DictGet(store, parent_id)[1],
                                  visited \cup {parent_id}, steps + 1, budget - 1)

\* the loop of find_thread_root leaving after its first parent step
RootWalkOneHop(store, current_email, visited, steps, budget) ==
    LET parent_id == current_email.is_response_to
        done(why) == [ found |-> TRUE, email |-> <<current_email>>, steps |-> steps,
                       exit |-> why, visited |-> visited ]
    IN  IF parent_id = None THEN done("root")
        ELSE IF parent_id \in visited THEN done("cycle")
        ELSE IF DictGet(store, parent_id) = <<>> THEN done("orphan")
        ELSE [ found |-> TRUE, email |-> DictGet(store, parent_id), steps |-> steps + 1,
               exit |-> "root", visited |-> visited \cup {parent_id} ]

RECURSIVE RootWalk(_, _, _, _, _)
\* the while loop of find_thread_root; budget bounds the evaluation, and
\* exit "budget" says that the loop was still running when it ran out
RootWalk(store, current_email, visited, steps, budget) ==
    LET parent_id == current_email.is_response_to
        done(why) == [ found |-> TRUE, email |-> <<current_email>>, steps |-> steps,
                       exit |-> why, visited |-> visited ]
    IN  IF parent_id = None THEN done("root")
        ELSE IF parent_id \in visited THEN done("cycle")
        ELSE IF DictGet(store, parent_id) = <<>> THEN done("orphan")
        ELSE IF budget = 0 THEN done("budget")
        ELSE RootWalk(store, DictGet(store, parent_id)[1], visited \cup {parent_id},
                      steps + 1, budget - 1)

\* find_thread_root
find_thread_root(store, email_id) ==
    IF DictGet(store, email_id) = <<>>
    THEN [found |-> FALSE, email |-> <<>>, steps |-> 0, exit |-> "absent", visited |-> {}]
    ELSE RootWalk(store, DictGet(store, email_id)[1], {email_id}, 0, MaxWalk)

RECURSIVE ScanPass(_, _, _, _)
\* one execution of "for email in all_emails" in find_thread_descendants
ScanPass(all_emails, thread_ids, thread_emails, changed) ==
    IF all_emails = <<>>
    THEN [thread_ids |-> thread_ids, thread_emails |-> thread_emails, changed |-> changed]
    ELSE LET email == Head(all_emails)
         IN  IF email.id \notin thread_ids /\ email.is_response_to \in thread_ids
             THEN ScanPass(Tail(all_emails), thread_ids \cup {email.id},
                           Append(thread_emails, email), TRUE)
             ELSE ScanPass(Tail(all_emails), thread_ids, thread_emails, changed)

\* find_thread_descendants scanning the collection once, with no fixed point
ScanLoopSinglePass(all_emails, thread_ids, thread_emails, passes) ==
    LET p == ScanPass(all_emails, thread_ids, thread_emails, FALSE)
    IN  [list |-> p.thread_emails, passes |-> passes + 1]

RECURSIVE ScanLoop(_, _, _, _)
\* "while changed" in find_thread_descendants; passes counts the scans
ScanLoop(all_emails, thread_ids, thread_emails, passes) ==
    LET p == ScanPass(all_emails, thread_ids, thread_emails, FALSE)
    IN  IF p.changed
        THEN ScanLoop(all_emails, p.thread_ids, p.thread_emails, passes + 1)
        ELSE [list |-> p.thread_emails, passes |-> passes + 1]

\* find_thread_descendants
find_thread_descendants(store, root_id) ==
    ScanLoop(store, {root_id}, DictGet(store, root_id), 0)

RECURSIVE InsertDescBeforeTies(_, _)
\* a descending insertion that puts e before the elements equal to it
InsertDescBeforeTies(sorted, e) ==
    IF sorted = <<>> THEN <<e>>
    ELSE IF ~StrLess(e.timestamp, Head(sorted).timestamp)
         THEN <<e>> \o sorted
         ELSE <<Head(sorted)>> \o InsertDescBeforeTies(Tail(sorted), e)

RECURSIVE InsertDesc(_, _)
\* where a stable descending sort puts e among the already sorted elements
\* that came before it: after every element whose timestamp is not smaller
InsertDesc(sorted, e) ==
    IF sorted = <<>> THEN <<e>>
    ELSE IF StrLess(Head(sorted).timestamp, e.timestamp)
         THEN <<e>> \o sorted
         ELSE <<Head(sorted)>> \o InsertDesc(Tail(sorted), e)

RECURSIVE SortFrom(_, _)
SortFrom(list, sorted) ==
    IF list = <<>> THEN sorted
    ELSE SortFrom(Tail(list), InsertDesc(sorted, Head(list)))

\* list.sort(key=lambda e: e.timestamp, reverse=True): stable
SortByTimestampDesc(list) == SortFrom(list, <<>>)

\* build_thread without the removal of the requested email
build_thread_KeepsRequested(store, email_id) ==
    LET requested_email == DictGet(store, email_id)
        root == find_thread_root(store, email_id)
    IN  IF requested_email = <<>> THEN [found |-> FALSE, email |-> <<>>, list |-> <<>>]
        ELSE IF ~root.found THEN [found |-> TRUE, email |-> requested_email, list |-> <<>>]
        ELSE [ found |-> TRUE, email |-> requested_email,
               list |-> SortByTimestampDesc(
                            find_thread_descendants(store, root.email[1].id).list) ]

\* build_thread collecting the descendants of the requested id, not of its root,
\* and before it has looked the requested email up
build_thread_FromRequested(store, email_id) ==
    LET requested_email == DictGet(store, email_id)
        all_thread_emails == find_thread_descendants(store, email_id).list
    IN  [ found |-> requested_email # <<>>, email |-> requested_email,
          list |-> SortByTimestampDesc(SeqFilterOut(all_thread_emails, email_id)) ]

\* build_thread
build_thread(store, email_id) ==
    LET requested_email == DictGet(store, email_id)
        root == find_thread_root(store, email_id)
    IN  IF requested_email = <<>> THEN [found |-> FALSE, email |-> <<>>, list |-> <<>>]
        ELSE IF ~root.found THEN [found |-> TRUE, email |-> requested_email, list |-> <<>>]
        ELSE LET all_thread_emails == find_thread_descendants(store, root.email[1].id).list
                 thread_emails == SeqFilterOut(all_thread_emails, email_id)
             IN  [ found |-> TRUE, email |-> requested_email,
                   list |-> SortByTimestampDesc(thread_emails) ]

(***************************************************************************)
(* Visibility: the inbox (services.py) and the investigation view (app.py).*)
(***************************************************************************)
RECURSIVE SelectInbox(_, _)
\* the filter loop of get_inbox_for_viewer
SelectInbox(all_emails, normalized_viewer) ==
    IF all_emails = <<>> THEN <<>>
    ELSE LET email == Head(all_emails)
             is_recipient == normalized_viewer \in Range(email.to)
             is_sender == normalized_viewer = email.from_
             is_deleted == normalized_viewer \in Range(email.deleted_by)
         IN  IF (is_recipient \/ is_sender) /\ ~is_deleted
             THEN <<email>> \o SelectInbox(Tail(all_emails), normalized_viewer)
             ELSE SelectInbox(Tail(all_emails), normalized_viewer)

\* an inbox filtered by the viewer name as it was given
get_inbox_for_viewer_AsGiven(store, viewer) ==
    SortByTimestampDesc(SelectInbox(store, viewer))

\* get_inbox_for_viewer
get_inbox_for_viewer(store, viewer) ==
    SortByTimestampDesc(SelectInbox(store, normalize_name(viewer)))

RECURSIVE SelectParticipant(_, _)
\* the filter loop of get_investigation
SelectParticipant(all_emails, name) ==
    IF all_emails = <<>> THEN <<>>
    ELSE LET email == Head(all_emails)
             is_recipient == name \in Range(email.to)
             is_sender == name = email.from_
         IN  IF is_recipient \/ is_sender
             THEN <<email>> \o SelectParticipant(Tail(all_emails), name)
             ELSE SelectParticipant(Tail(all_emails), name)

\* get_investigation, for a name that validate_name_param accepts: the matching
\* emails, newest first, as they are handed to paginate_investigation
get_investigation(store, name) ==
    SortByTimestampDesc(SelectParticipant(store, normalize_name(name)))

(***************************************************************************)
(* Threads, the singleton and the locks (storage.py 52-130).               *)
(* An instance is referred to by its position in `instances`, 0 for None.  *)
(* A lock is "free" or holds the thread that owns it.                      *)
(***************************************************************************)
Threads == {"t1", "t2"}

\* the object that object.__new__ returns: none of the attributes that
\* __init__ assigns exists yet (ready = FALSE)
RawInstance ==
    [ ready |-> FALSE, data_dir |-> None, agent_registry |-> <<>>,
      registered_names |-> {}, queue_lock |-> "free" ]

\* the attributes after the body of EmailStorage.__init__
InitializedInstance(data_dir) ==
    [ ready |-> TRUE, data_dir |-> data_dir, agent_registry |-> <<>>,
      registered_names |-> {}, queue_lock |-> "free" ]

\* the local variables of a thread between calls
NoLocals ==
    [ op |-> "none", inst |-> 0, self |-> 0, dir |-> None, name |-> <<>>, pid |-> 0,
      email |-> <<>>, id |-> "", field |-> "", absent |-> FALSE, snap |-> <<>>,
      seen |-> <<>>, ret |-> "", began |-> 0 ]

\* threading.Lock.acquire: cls._lock is not reentrant
LockFree(holder) == holder = "free"

\* an RLock that never makes a thread wait
CanAcquireAlways(t, holder) == TRUE

\* a lock that makes its own holder wait as well
CanAcquireOnlyFree(t, holder) == holder = "free"

\* threading.RLock.acquire as used by _execute_with_lock: the thread goes
\* on when the lock is free or its own
CanAcquire(t, holder) == holder \in {"free", t}

\* one instance constructed with the default directory, no call in progress
OneCaller ==
    /\ pc = [t \in Threads |-> "idle"]
    /\ loc = [t \in Threads |-> [NoLocals EXCEPT !.inst = 1]]
    /\ cls = [instance |-> 1, initialized |-> TRUE, lock |-> "free"]
    /\ instances = <<InitializedInstance("data")>>
    /\ epoch = [resets |-> 0, overlapped |-> FALSE]

(***************************************************************************)
(* Store operations (storage.py).  Each runs inside _execute_with_lock and *)
(* includes the _save_emails it ends with.                                 *)
(***************************************************************************)
\* a create that keeps the stored message when the id is taken
CreateIfAbsent(email) ==
    /\ phase = "ready"
    /\ Len(DictSet(emails, email)) <= MaxStore
    /\ emails' = IF Stored(emails, email.id) THEN emails ELSE Append(emails, email)
    /\ diskEmails' = EmailsDocument(emails')
    /\ ret' = [Ret("create", email.id) EXCEPT !.found = TRUE, !.email = <<email>>]
    /\ UNCHANGED <<phase, quarantined, diskQuarantine, backups>>
    /\ UNCHANGED threadVars

\* EmailStorage.create
Create(email) ==
    /\ phase = "ready"
    /\ Len(DictSet(emails, email)) <= MaxStore
    /\ emails' = DictSet(emails, email)
    /\ diskEmails' = EmailsDocument(emails')
    /\ ret' = [Ret("create", email.id) EXCEPT !.found = TRUE, !.email = <<email>>]
    /\ UNCHANGED <<phase, quarantined, diskQuarantine, backups>>
    /\ UNCHANGED threadVars

\* a delete that reports True whether or not the id was stored
DeleteReturnsTrue(email_id) ==
    /\ phase = "ready"
    /\ emails' = DictDel(emails, email_id)
    /\ diskEmails' = EmailsDocument(emails')
    /\ ret' = [Ret("delete", email_id) EXCEPT !.found = TRUE]
    /\ UNCHANGED <<phase, quarantined, diskQuarantine, backups>>
    /\ UNCHANGED threadVars

\* a delete that also removes the direct replies to the deleted message
DeleteWithReplies(email_id) ==
    /\ phase = "ready"
    /\ IF ~Stored(emails, email_id)
       THEN /\ ret' = Ret("delete", email_id)
            /\ UNCHANGED <<emails, diskEmails>>
       ELSE /\ emails' = SelectSeq(DictDel(emails, email_id),
                                   LAMBDA e : e.is_response_to # email_id)
            /\ diskEmails' = EmailsDocument(emails')
            /\ ret' = [Ret("delete", email_id) EXCEPT !.found = TRUE]
    /\ UNCHANGED <<phase, quarantined, diskQuarantine, backups>>
    /\ UNCHANGED threadVars

\* EmailStorage.delete
Delete(email_id) ==
    /\ phase = "ready"
    /\ IF ~Stored(emails, email_id)
       THEN /\ ret' = Ret("delete", email_id)
            /\ UNCHANGED <<emails, diskEmails>>
       ELSE /\ emails' = DictDel(emails, email_id)
            /\ diskEmails' = EmailsDocument(emails')
            /\ ret' = [Ret("delete", email_id) EXCEPT !.found = TRUE]
    /\ UNCHANGED <<phase, quarantined, diskQuarantine, backups>>
    /\ UNCHANGED threadVars

(***************************************************************************)
(* Calls of the thread services on the current store.                      *)
(***************************************************************************)
FindThreadRoot(email_id) ==
    /\ phase = "ready"
    /\ LET r == find_thread_root(emails, email_id)
       IN  ret' = [Ret("find_thread_root", email_id) EXCEPT
                     !.found = r.found, !.email = r.email, !.steps = r.steps,
                     !.exit = r.exit, !.visited = r.visited]
    /\ UNCHANGED <<phase, emails, quarantined, diskEmails, diskQuarantine, backups>>
    /\ UNCHANGED threadVars

FindThreadDescendants(root_id) ==
    /\ phase = "ready"
    /\ LET r == find_thread_descendants(emails, root_id)
       IN  ret' = [Ret("find_thread_descendants", root_id) EXCEPT
                     !.found = Stored(emails, root_id), !.list = r.list, !.steps = r.passes]
    /\ UNCHANGED <<phase, emails, quarantined, diskEmails, diskQuarantine, backups>>
    /\ UNCHANGED threadVars

BuildThread(email_id) ==
    /\ phase = "ready"
    /\ LET r == build_thread(emails, email_id)
       IN  ret' = [Ret("build_thread", email_id) EXCEPT
                     !.found = r.found, !.email = r.email, !.list = r.list]
    /\ UNCHANGED <<phase, emails, quarantined, diskEmails, diskQuarantine, backups>>
    /\ UNCHANGED threadVars

(***************************************************************************)
(* SpecThread: a store filled and emptied by create and delete, queried by *)
(* the thread services.  A caller of create chooses id and isResponseTo    *)
(* freely, so orphan references, self references and cycles are reachable. *)
(***************************************************************************)
ThreadIds == {"u1", "u2", "u3"}

ThreadTimestamps == {<<"1", "Z">>, <<"2", "Z">>}

ThreadEmails ==
    { Email(id, << <<"A">> >>, <<" ", "b">>, <<>>, <<>>, ts, parent, <<>>, <<>>) :
        id \in ThreadIds, ts \in ThreadTimestamps, parent \in ThreadIds \cup {None} }

ReadyInit ==
    /\ phase = "ready"
    /\ emails = <<>>
    /\ quarantined = JList(<<>>)
    /\ diskEmails = EmptyDocument
    /\ diskQuarantine = EmptyDocument
    /\ backups = <<>>
    /\ ret = NoRet
    /\ OneCaller

NextThread ==
    \/ \E e \in ThreadEmails : Create(e)
    \/ \E id \in ThreadIds : Delete(id)
    \/ \E id \in ThreadIds : FindThreadRoot(id)
    \/ \E id \in ThreadIds : FindThreadDescendants(id)
    \/ \E id \in ThreadIds : BuildThread(id)

SpecThread == ReadyInit /\ [][NextThread]_vars

(***************************************************************************)
(* The parent graph of a store content, defined without the services.      *)
(***************************************************************************)
\* the isResponseTo of the stored message id; None when id is not stored
ParentId(store, id) ==
    IF Stored(store, id) THEN store[IndexOf(store, id)].is_response_to ELSE None

RECURSIVE ParentClosure(_, _, _)
ParentClosure(store, ids, n) ==
    IF n = 0 THEN ids
    ELSE ParentClosure(store, ids \cup ({ParentId(store, x) : x \in ids} \ {None}), n - 1)

\* the ids reached from id by one or more isResponseTo steps; a step leaves
\* a stored message only
AncestorIds(store, id) ==
    ParentClosure(store, {ParentId(store, id)} \ {None}, Len(store))

Acyclic(store) == \A id \in StoredIds(store) : id \notin AncestorIds(store, id)

NoOrphan(store) ==
    \A id \in StoredIds(store) :
        ParentId(store, id) = None \/ Stored(store, ParentId(store, id))

\* every stored reply was inserted after the stored message it replies to
ParentsFirst(store) ==
    \A i \in 1..Len(store) :
        Stored(store, store[i].is_response_to)
            => IndexOf(store, store[i].is_response_to) < i

IdsOf(list) == {list[i].id : i \in 1..Len(list)}

SortedDesc(list) ==
    \A i, j \in 1..Len(list) : i < j => ~StrLess(list[i].timestamp, list[j].timestamp)

\* elements of list with equal timestamps are in the order they have in ref
TiesFollow(list, ref) ==
    \A i, j \in 1..Len(list) :
        (i < j /\ list[i].timestamp = list[j].timestamp)
            => IndexOf(ref, list[i].id) < IndexOf(ref, list[j].id)

(***************************************************************************)
(* C3: find_thread_root terminates on every store content, parent cycles   *)
(* included: the loop leaves by itself (never by the evaluation budget),   *)
(* after at most as many parent steps as there are stored messages, and    *)
(* when it leaves because the parent was already visited, the message it   *)
(* returns lies on a cycle of the parent graph.                            *)
(***************************************************************************)
C3_RootWalkTerminates ==
    ret.op = "find_thread_root" =>
        /\ ret.exit # "budget"
        /\ ret.steps <= Len(emails)
        /\ ret.exit = "cycle" =>
              ret.email[1].id \in AncestorIds(emails, ret.email[1].id)

\* a walk that entered a cycle through a tail: the start is not on the cycle
C3_Witness ==
    /\ ret.op = "find_thread_root"
    /\ ret.exit = "cycle"
    /\ ret.steps = 2
    /\ ret.id \notin AncestorIds(emails, ret.id)

(***************************************************************************)
(* C4: find_thread_root(id) returns absent exactly when id is not stored;  *)
(* otherwise it returns a stored message r that is id itself or one of its *)
(* ancestors along isResponseTo, and r has no isResponseTo, or its parent  *)
(* is not stored, or its parent was already visited in this walk.          *)
(***************************************************************************)
C4_RootResult ==
    ret.op = "find_thread_root" =>
        /\ ~ret.found <=> ~Stored(emails, ret.id)
        /\ ~ret.found => ret.email = <<>>
        /\ ret.found =>
              LET r == ret.email[1]
              IN  /\ r \in Range(emails)
                  /\ r.id = ret.id \/ r.id \in AncestorIds(emails, ret.id)
                  /\ ret.visited \subseteq {ret.id} \cup AncestorIds(emails, ret.id)
                  /\ \/ r.is_response_to = None
                     \/ ~Stored(emails, r.is_response_to)
                     \/ r.is_response_to \in ret.visited

\* the orphan exit, taken above the starting message
C4_Witness ==
    /\ ret.op = "find_thread_root"
    /\ ret.exit = "orphan"
    /\ ret.steps >= 1
    /\ ret.email[1].id # ret.id

(***************************************************************************)
(* C5: for a stored root_id, find_thread_descendants(root_id) ends after   *)
(* at most one scan per stored message plus one, and returns exactly the   *)
(* stored messages from which root_id is reached by zero or more           *)
(* isResponseTo steps, each of them once.                                  *)
(***************************************************************************)
C5_DescendantsExact ==
    (ret.op = "find_thread_descendants" /\ Stored(emails, ret.id)) =>
        /\ Range(ret.list) =
              { m \in Range(emails) :
                    m.id = ret.id \/ ret.id \in AncestorIds(emails, m.id) }
        /\ Cardinality(IdsOf(ret.list)) = Len(ret.list)
        /\ ret.list[1].id = ret.id
        /\ ret.steps <= Len(emails) + 1

\* a thread of three that the scan needs three passes to collect
C5_Witness ==
    /\ ret.op = "find_thread_descendants"
    /\ Stored(emails, ret.id)
    /\ Len(ret.list) = 3
    /\ ret.steps = 3

(***************************************************************************)
(* C6: for a stored id, build_thread(id) returns the requested message and *)
(* a thread list that does not contain id and holds exactly the other      *)
(* members of find_thread_descendants(find_thread_root(id)); for the chain *)
(* A <- B <- C, build_thread(C) yields exactly {A, B}.                     *)
(***************************************************************************)
IsChain(store, a, b, c) ==
    /\ StoredIds(store) = {a, b, c}
    /\ Cardinality({a, b, c}) = 3
    /\ ParentId(store, a) = None
    /\ ParentId(store, b) = a
    /\ ParentId(store, c) = b

C6_ThreadMembers ==
    (ret.op = "build_thread" /\ Stored(emails, ret.id)) =>
        /\ ret.found
        /\ ret.email = DictGet(emails, ret.id)
        /\ ret.id \notin IdsOf(ret.list)
        /\ Cardinality(IdsOf(ret.list)) = Len(ret.list)
        /\ LET root == find_thread_root(emails, ret.id).email[1]
           IN  Range(ret.list) =
                   Range(find_thread_descendants(emails, root.id).list)
                       \ Range(ret.email)
        /\ \A a, b \in ThreadIds :
              IsChain(emails, a, b, ret.id) => IdsOf(ret.list) = {a, b}

C6_Witness ==
    /\ ret.op = "build_thread"
    /\ \E a, b \in ThreadIds : IsChain(emails, a, b, ret.id)
    /\ Len(ret.list) = 2

(***************************************************************************)
(* C7: in a store whose parent graph is acyclic and has no orphan          *)
(* reference, two stored messages with the same root see the same thread:  *)
(* build_thread(x) plus x is the same set as build_thread(y) plus y.       *)
(***************************************************************************)
C7_SameThread ==
    (ret.op = "build_thread" /\ Stored(emails, ret.id)
        /\ Acyclic(emails) /\ NoOrphan(emails)) =>
        \A y \in StoredIds(emails) :
            find_thread_root(emails, y).email = find_thread_root(emails, ret.id).email
                => Range(ret.list) \cup Range(ret.email)
                     = Range(build_thread(emails, y).list) \cup Range(DictGet(emails, y))

\* a leaf of a thread of three asked for its thread
C7_Witness ==
    /\ ret.op = "build_thread"
    /\ Acyclic(emails) /\ NoOrphan(emails)
    /\ Len(ret.list) = 2
    /\ ParentId(emails, ret.id) # None

(***************************************************************************)
(* C8, as claimed: the thread list of build_thread is sorted by timestamp  *)
(* descending, and messages with equal timestamps appear in their store    *)
(* insertion order.                                                        *)
(***************************************************************************)
C8_TiesInStoreOrder ==
    ret.op = "build_thread" =>
        /\ SortedDesc(ret.list)
        /\ TiesFollow(ret.list, emails)

(***************************************************************************)
(* C8, amended: the thread list of build_thread is sorted by timestamp     *)
(* descending, and messages with equal timestamps appear in the order in   *)
(* which find_thread_descendants found them (the root first, then each     *)
(* message as the repeated scan reaches it); that is the store insertion   *)
(* order whenever every stored reply was inserted after its stored parent. *)
(***************************************************************************)
C8_TiesInDiscoveryOrder ==
    (ret.op = "build_thread" /\ ret.found) =>
        LET root == find_thread_root(emails, ret.id).email[1]
        IN  /\ SortedDesc(ret.list)
            /\ TiesFollow(ret.list, find_thread_descendants(emails, root.id).list)
            /\ ParentsFirst(emails) => TiesFollow(ret.list, emails)

\* two messages with equal timestamps in a thread whose reply was stored first
C8_Witness ==
    /\ ret.op = "build_thread"
    /\ Len(ret.list) = 2
    /\ ret.list[1].timestamp = ret.list[2].timestamp
    /\ ~ParentsFirst(emails)

(***************************************************************************)
(* C9: build_thread(id) for an id that is not stored returns (not found,   *)
(* empty thread) and changes neither the store nor the disk.               *)
(***************************************************************************)
C9_AbsentThread ==
    [][ (ret'.op = "build_thread" /\ ~Stored(emails, ret'.id)) =>
            /\ ~ret'.found
            /\ ret'.email = <<>>
            /\ ret'.list = <<>>
            /\ UNCHANGED <<emails, quarantined, diskEmails, diskQuarantine, backups>>
      ]_vars

\* the id asked for is not stored, and a stored message replies to it
C9_Witness ==
    /\ ret.op = "build_thread"
    /\ ~Stored(emails, ret.id)
    /\ \E m \in Range(emails) : m.is_response_to = ret.id

(***************************************************************************)
(* The remaining store and status operations.                              *)
(***************************************************************************)
\* an update that replaces the stored message and does not save
UpdateWithoutSave(email) ==
    /\ phase = "ready"
    /\ IF ~Stored(emails, email.id)
       THEN /\ ret' = Ret("update", email.id)
            /\ UNCHANGED emails
       ELSE /\ emails' = DictSet(emails, email)
            /\ ret' = [Ret("update", email.id) EXCEPT !.found = TRUE, !.email = <<email>>]
    /\ UNCHANGED <<phase, quarantined, diskEmails, diskQuarantine, backups>>
    /\ UNCHANGED threadVars

\* EmailStorage.update
Update(email) ==
    /\ phase = "ready"
    /\ IF ~Stored(emails, email.id)
       THEN /\ ret' = Ret("update", email.id)
            /\ UNCHANGED <<emails, diskEmails>>
       ELSE /\ emails' = DictSet(emails, email)
            /\ diskEmails' = EmailsDocument(emails')
            /\ ret' = [Ret("update", email.id) EXCEPT !.found = TRUE, !.email = <<email>>]
    /\ UNCHANGED <<phase, quarantined, diskQuarantine, backups>>
    /\ UNCHANGED threadVars

\* a copy of mark_read_by that appends without looking for the name
mark_as_read_AppendsAlways(store, email_id, viewer) ==
    IF DictGet(store, email_id) = <<>>
    THEN [found |-> FALSE, store |-> store]
    ELSE [ found |-> TRUE,
           store |-> DictSet(store,
                             [DictGet(store, email_id)[1] EXCEPT
                                 !.read_by = Append(@, normalize_name(viewer))]) ]

\* services.mark_as_read: get_by_id, Email.mark_read_by on the stored object,
\* then EmailStorage.update; [found (the bool returned), store (the dict afterwards)]
mark_as_read(store, email_id, viewer) ==
    IF DictGet(store, email_id) = <<>>
    THEN [found |-> FALSE, store |-> store]
    ELSE [ found |-> TRUE,
           store |-> DictSet(store, mark_read_by(DictGet(store, email_id)[1],
                                                 normalize_name(viewer))) ]

\* services.mark_as_deleted
mark_as_deleted(store, email_id, viewer) ==
    IF DictGet(store, email_id) = <<>>
    THEN [found |-> FALSE, store |-> store]
    ELSE [ found |-> TRUE,
           store |-> DictSet(store, mark_deleted_by(DictGet(store, email_id)[1],
                                                    normalize_name(viewer))) ]

\* a call of mark_as_read; update ends with _save_emails
MarkAsRead(email_id, viewer) ==
    /\ phase = "ready"
    /\ LET r == mark_as_read(emails, email_id, viewer)
       IN  /\ ret' = [Ret("mark_as_read", email_id) EXCEPT
                        !.viewer = viewer, !.found = r.found]
           /\ IF r.found
              THEN /\ emails' = r.store
                   /\ diskEmails' = EmailsDocument(emails')
              ELSE UNCHANGED <<emails, diskEmails>>
    /\ UNCHANGED <<phase, quarantined, diskQuarantine, backups>>
    /\ UNCHANGED threadVars

\* a call of mark_as_deleted
MarkAsDeleted(email_id, viewer) ==
    /\ phase = "ready"
    /\ LET r == mark_as_deleted(emails, email_id, viewer)
       IN  /\ ret' = [Ret("mark_as_deleted", email_id) EXCEPT
                        !.viewer = viewer, !.found = r.found]
           /\ IF r.found
              THEN /\ emails' = r.store
                   /\ diskEmails' = EmailsDocument(emails')
              ELSE UNCHANGED <<emails, diskEmails>>
    /\ UNCHANGED <<phase, quarantined, diskQuarantine, backups>>
    /\ UNCHANGED threadVars

GetInbox(viewer) ==
    /\ phase = "ready"
    /\ ret' = [Ret("get_inbox_for_viewer", "") EXCEPT
                 !.viewer = viewer, !.found = TRUE,
                 !.list = get_inbox_for_viewer(emails, viewer)]
    /\ UNCHANGED <<phase, emails, quarantined, diskEmails, diskQuarantine, backups>>
    /\ UNCHANGED threadVars

GetInvestigation(name) ==
    /\ phase = "ready"
    /\ ret' = [Ret("get_investigation", "") EXCEPT
                 !.viewer = name, !.found = TRUE,
                 !.list = get_investigation(emails, name)]
    /\ UNCHANGED <<phase, emails, quarantined, diskEmails, diskQuarantine, backups>>
    /\ UNCHANGED threadVars

(***************************************************************************)
(* Spec: the running store with all its message operations, the status     *)
(* services and the views.  Two ids, two viewers; a message is addressed   *)
(* to "a" or to its own sender "b", so "a" is not always a participant.    *)
(***************************************************************************)
SpecIds == {"u1", "u2"}

SpecViewers == { <<" ", "A">>, <<"B">> }

\* the instant at which the message with this id was written
SpecTimestamp(id) == IF id = "u1" THEN <<"1", "Z">> ELSE <<"2", "Z">>

SpecEmails ==
    { Email(id, <<to>>, <<"b", " ">>, <<>>, <<>>, SpecTimestamp(id), parent, <<>>, <<>>) :
        id \in SpecIds, to \in {<<"A">>, <<"b">>}, parent \in SpecIds \cup {None} }

Next ==
    \/ \E e \in SpecEmails : Create(e)
    \/ \E e \in SpecEmails : Update(e)
    \/ \E id \in SpecIds : Delete(id)
    \/ \E id \in SpecIds, v \in {<<" ", "A">>} : MarkAsRead(id, v)
    \/ \E id \in SpecIds, v \in SpecViewers : MarkAsDeleted(id, v)
    \/ \E v \in SpecViewers : GetInbox(v)
    \/ \E v \in SpecViewers : GetInvestigation(v)
    \/ \E id \in SpecIds : BuildThread(id)

Spec == ReadyInit /\ [][Next]_vars

(***************************************************************************)
(* Soft delete.                                                            *)
(***************************************************************************)
Participants(e) == Range(e.to) \cup {e.from_}

\* what the claim says of a successful mark_as_deleted(A, v), but for the
\* investigation view; prev is the store before the call, store the one after
SoftDeleteKeeps(prev, store, A, v) ==
    /\ Stored(store, A)
    /\ A \notin IdsOf(get_inbox_for_viewer(store, v))
    /\ \A w \in Participants(store[IndexOf(store, A)]) \ {v} :
          A \in IdsOf(get_inbox_for_viewer(prev, w))
              => A \in IdsOf(get_inbox_for_viewer(store, w))
    /\ \A B \in StoredIds(store) \ {A} :
          ParentId(store, B) = A => A \in IdsOf(build_thread(store, B).list)

\* A is in the investigation view for v, with v in its deletedBy
InInvestigation(store, A, v) ==
    \E i \in 1..Len(get_investigation(store, v)) :
        /\ get_investigation(store, v)[i].id = A
        /\ v \in Range(get_investigation(store, v)[i].deleted_by)

(***************************************************************************)
(* C10, as claimed: after mark_as_deleted(A, v) the message A is still     *)
(* stored, absent from v's inbox, still in the inbox of every other        *)
(* participant, in the investigation view for v with v in deletedBy, and   *)
(* still included by build_thread of any reply to A.                       *)
(***************************************************************************)
C10_SoftDeleteAnyViewer ==
    [][ (ret'.op = "mark_as_deleted" /\ ret'.found) =>
            /\ SoftDeleteKeeps(emails, emails', ret'.id, normalize_name(ret'.viewer))
            /\ InInvestigation(emails', ret'.id, normalize_name(ret'.viewer))
      ]_vars

(***************************************************************************)
(* C10, amended: after mark_as_deleted(A, v) the message A is still        *)
(* stored, absent from v's inbox, still in the inbox of every other        *)
(* participant that had it there, and still included by build_thread of    *)
(* any other message replying to A; when v is a participant of A (its      *)
(* sender or one of its recipients), A is in the investigation view for v  *)
(* with v in deletedBy.                                                    *)
(***************************************************************************)
C10_SoftDeleteParticipant ==
    [][ (ret'.op = "mark_as_deleted" /\ ret'.found) =>
            LET A == ret'.id
                v == normalize_name(ret'.viewer)
            IN  /\ SoftDeleteKeeps(emails, emails', A, v)
                /\ v \in Participants(emails'[IndexOf(emails', A)])
                      => InInvestigation(emails', A, v)
                /\ v \notin Participants(emails'[IndexOf(emails', A)])
                      => A \notin IdsOf(get_investigation(emails', v))
      ]_vars

\* a recipient has soft-deleted a message that has a reply and whose sender
\* still has it in the inbox
C10_Witness ==
    /\ ret.op = "mark_as_deleted"
    /\ ret.found
    /\ normalize_name(ret.viewer) \in Range(emails[IndexOf(emails, ret.id)].to)
    /\ emails[IndexOf(emails, ret.id)].from_ # normalize_name(ret.viewer)
    /\ ret.id \in IdsOf(get_inbox_for_viewer(emails, emails[IndexOf(emails, ret.id)].from_))
    /\ \E B \in StoredIds(emails) \ {ret.id} : ParentId(emails, B) = ret.id

(***************************************************************************)
(* Startup: the record validator and initialize() (storage.py).            *)
(*                                                                         *)
(* A raw record of the message document is                                 *)
(*   [kind, id, to, from, subject, content, timestamp, isResponseTo,       *)
(*    readBy, deletedBy, extra]                                            *)
(* where kind is "object" for a JSON object and "scalar" for anything      *)
(* else, every field is a JSON value whose type t is "missing" when the    *)
(* key is absent, and extra says that a key outside the schema is present. *)
(* The text of an error is a pair <<message, field>>; a quarantine reason  *)
(* is the sequence of the texts that "; ".join puts together.              *)
(***************************************************************************)
MissingId == [t |-> "missing", s |-> ""]
MissingText == [t |-> "missing", s |-> <<>>]
MissingList == [t |-> "missing", items |-> <<>>]

RequiredFields == <<"id", "to", "from", "subject", "content", "timestamp">>

\* field not in data, for the required fields
FieldMissing(data, field) ==
    CASE field = "id" -> data.id.t = "missing"
      [] field = "to" -> data.to.t = "missing"
      [] field = "from" -> data.from.t = "missing"
      [] field = "subject" -> data.subject.t = "missing"
      [] field = "content" -> data.content.t = "missing"
      [] field = "timestamp" -> data.timestamp.t = "missing"

RECURSIVE MissingErrors(_, _)
\* the loop over required_fields
MissingErrors(data, fields) ==
    IF fields = <<>> THEN <<>>
    ELSE (IF FieldMissing(data, Head(fields))
          THEN << <<"missing required field", Head(fields)>> >>
          ELSE <<>>) \o MissingErrors(data, Tail(fields))

\* the entries of a JSON array taken as names whatever their type
StringItemsKeepsAll(items) == [i \in 1..Len(items) |-> items[i].s]

RECURSIVE StringItems(_)
\* the str entries of a JSON array, in order
StringItems(items) ==
    IF items = <<>> THEN <<>>
    ELSE (IF Head(items).t = "str" THEN <<Head(items).s>> ELSE <<>>)
             \o StringItems(Tail(items))

\* filter non-strings, strip and lowercase, drop empty names, deduplicate
RepairNames(items) == NormalizeFrom(StringItems(items), <<>>)

IsDigit(c) == c \in {"1", "2", "3"}

\* _validate_timestamp: a str that ends with Z and that strptime parses
\* (here: digits before the Z)
validate_timestamp(ts) ==
    /\ ts.t = "str"
    /\ Len(ts.s) >= 2
    /\ ts.s[Len(ts.s)] = "Z"
    /\ \A i \in 1..(Len(ts.s) - 1) : IsDigit(ts.s[i])

\* _validate_email_data: [valid, errors, fixed]
validate_email_data(data) ==
    LET missing == MissingErrors(data, RequiredFields)
        idErr == IF data.id.t # "str" THEN << <<"must be a string", "id">> >>
                 ELSE IF ~validate_uuid(data.id.s)
                      THEN << <<"invalid UUID format", "id">> >>
                      ELSE <<>>
        fixedTo == IF data.to.t = "list" THEN JNames(RepairNames(data.to.items)) ELSE data.to
        toErr == IF data.to.t # "list" THEN << <<"must be an array", "to">> >>
                 ELSE IF fixedTo.items = <<>>
                      THEN << <<"must have at least one valid recipient", "to">> >>
                      ELSE <<>>
        fixedFrom == IF data.from.t = "str" THEN JStr(normalize_name(data.from.s))
                     ELSE data.from
        fromErr == IF data.from.t # "str" THEN << <<"must be a string", "from">> >>
                   ELSE IF fixedFrom.s = <<>> THEN << <<"cannot be empty", "from">> >>
                        ELSE <<>>
        fixedSubject == IF data.subject.t = "str" THEN JStr(Strip(data.subject.s))
                        ELSE data.subject
        subjectErr == IF data.subject.t # "str"
                      THEN << <<"must be a string", "subject">> >> ELSE <<>>
        fixedContent == IF data.content.t = "str" THEN JStr(Strip(data.content.s))
                        ELSE data.content
        contentErr == IF data.content.t # "str"
                      THEN << <<"must be a string", "content">> >> ELSE <<>>
        tsErr == IF ~validate_timestamp(data.timestamp)
                 THEN << <<"invalid timestamp format", "timestamp">> >> ELSE <<>>
        parentErr == IF data.isResponseTo.t \in {"missing", "null"} THEN <<>>
                     ELSE IF data.isResponseTo.t # "str"
                          THEN << <<"must be a string or null", "isResponseTo">> >>
                          ELSE IF ~validate_uuid(data.isResponseTo.s)
                               THEN << <<"invalid UUID format", "isResponseTo">> >>
                               ELSE <<>>
        fixedReadBy == IF data.readBy.t = "missing" THEN JNames(<<>>)
                       ELSE IF data.readBy.t = "list"
                            THEN JNames(RepairNames(data.readBy.items))
                            ELSE data.readBy
        readByErr == IF data.readBy.t \in {"missing", "list"} THEN <<>>
                     ELSE << <<"must be an array", "readBy">> >>
        fixedDeletedBy == IF data.deletedBy.t = "missing" THEN JNames(<<>>)
                          ELSE IF data.deletedBy.t = "list"
                               THEN JNames(RepairNames(data.deletedBy.items))
                               ELSE data.deletedBy
        deletedByErr == IF data.deletedBy.t \in {"missing", "list"} THEN <<>>
                        ELSE << <<"must be an array", "deletedBy">> >>
        errors == idErr \o toErr \o fromErr \o subjectErr \o contentErr \o tsErr
                      \o parentErr \o readByErr \o deletedByErr
    IN  IF missing # <<>>
        THEN [valid |-> FALSE, errors |-> missing, fixed |-> data]
        ELSE [ valid |-> errors = <<>>,
               errors |-> errors,
               fixed |-> [data EXCEPT !.to = fixedTo, !.from = fixedFrom,
                                      !.subject = fixedSubject, !.content = fixedContent,
                                      !.readBy = fixedReadBy, !.deletedBy = fixedDeletedBy,
                                      !.extra = FALSE] ]

\* a quarantine entry that keeps the repaired form of the record
QuarantineEntryRepaired(email_data, reason) ==
    [ original |-> validate_email_data(email_data).fixed, reason |-> reason,
      quarantined_at |-> "now" ]

\* _quarantine_email: the entry appended to _quarantined
QuarantineEntry(email_data, reason) ==
    [original |-> email_data, reason |-> reason, quarantined_at |-> "now"]

\* _validate_version: <<is_valid, needs_conversion>> as is_valid alone; a
\* valid version is 1 or "1", and both are used as 1 afterwards
validate_version(version) == version.t \in {"int", "str"} /\ version.v = 1

\* _validate_file_structure
validate_file_structure(data, file_type) ==
    /\ data.top = "object"
    /\ data.version.t # "missing"
    /\ file_type = "quarantine" => data.coll.t # "missing"

\* _backup_file: the file is renamed, its content kept
BackupFile(file, suffix, content) == [file |-> file, suffix |-> suffix, content |-> content]

\* initialize, the part that handles emails.json:
\* [fatal, data (emails_data), disk (the file afterwards), backups]
LoadEmails(doc) ==
    LET kept == [fatal |-> FALSE, data |-> doc, disk |-> doc, backups |-> <<>>]
        fatal == [kept EXCEPT !.fatal = TRUE]
        loaded ==
            IF doc.state = "unparseable" THEN fatal
            ELSE IF doc.state = "absent" \/ doc.top = "null"
                 THEN \* _read_json_file returned None
                      [kept EXCEPT !.data = EmptyDocument, !.disk = EmptyDocument]
            ELSE IF ~validate_file_structure(doc, "emails") THEN fatal
            ELSE IF ~validate_version(doc.version)
                 THEN [ fatal |-> FALSE, data |-> EmptyDocument, disk |-> EmptyDocument,
                        backups |-> <<BackupFile("emails.json", "old", doc)>> ]
            ELSE [kept EXCEPT !.data = [doc EXCEPT !.version = VersionOne]]
    IN  IF loaded.fatal THEN loaded
        ELSE IF loaded.data.coll.t = "missing"
             THEN [loaded EXCEPT !.data = [loaded.data EXCEPT !.coll = JList(<<>>)]]
        ELSE IF loaded.data.coll.t # "list" THEN fatal
        ELSE loaded

\* initialize, the part that handles quarantine.json:
\* [data (quarantine_data), disk (the file afterwards), backups]
LoadQuarantine(doc) ==
    LET fresh == [ data |-> EmptyDocument, disk |-> EmptyDocument,
                   backups |-> <<BackupFile("quarantine.json", "bak", doc)>> ]
    IN  IF doc.state = "unparseable" THEN fresh
        ELSE IF doc.state = "absent" \/ doc.top = "null"
             THEN \* _read_json_file returned None
                  [fresh EXCEPT !.backups = <<>>]
        ELSE IF ~validate_file_structure(doc, "quarantine") THEN fresh
        ELSE IF ~validate_version(doc.version) THEN fresh
        ELSE [data |-> [doc EXCEPT !.version = VersionOne], disk |-> doc, backups |-> <<>>]

\* bool(email_id) for email_id = email_data.get('id')
Truthy(id) ==
    CASE id.t = "str" -> id.s # ""
      [] id.t = "int" -> id.s # "0"
      [] id.t = "list" -> id.s # ""
      [] OTHER -> FALSE

\* whether email_id can be a dict key
Hashable(id) == id.t # "list"

\* the first pass of initialize raises: a record that is no dict has no get,
\* and an unhashable id cannot index id_occurrences
FirstPassRaises(records) ==
    \E i \in 1..Len(records) :
        \/ records[i].kind # "object"
        \/ Truthy(records[i].id) /\ ~Hashable(records[i].id)

\* a duplicate check that spares the first record of each id
IsDuplicateIdAfterFirst(records, i) ==
    /\ Truthy(records[i].id)
    /\ \E j \in 1..(i - 1) : records[j].id = records[i].id

\* email_id and len(id_occurrences.get(email_id, [])) > 1
IsDuplicateId(records, i) ==
    /\ Truthy(records[i].id)
    /\ Cardinality({j \in 1..Len(records) : records[j].id = records[i].id}) > 1

\* fixed_data.get('isResponseTo')
FixedParent(fixed) ==
    IF fixed.isResponseTo.t \in {"missing", "null"} THEN None ELSE fixed.isResponseTo.s

RECURSIVE SecondPass(_, _, _, _)
\* the second pass of initialize from record i on:
\* [raised, valid_emails, quarantined]; appending to a _quarantined that is
\* no list raises
SecondPass(records, i, valid_emails, q) ==
    IF i > Len(records)
    THEN [raised |-> FALSE, valid_emails |-> valid_emails, quarantined |-> q]
    ELSE LET email_data == records[i]
             v == validate_email_data(email_data)
             fixed == v.fixed
             to == [k \in 1..Len(fixed.to.items) |-> fixed.to.items[k].s]
             read_by == [k \in 1..Len(fixed.readBy.items) |-> fixed.readBy.items[k].s]
             deleted_by == [k \in 1..Len(fixed.deletedBy.items) |-> fixed.deletedBy.items[k].s]
             quarantine(reason) ==
                 IF q.t # "list"
                 THEN [raised |-> TRUE, valid_emails |-> valid_emails, quarantined |-> q]
                 ELSE SecondPass(records, i + 1, valid_emails,
                                 JList(Append(q.items, QuarantineEntry(email_data, reason))))
         IN  IF IsDuplicateId(records, i)
             THEN quarantine(<< <<"duplicate id", "id">> >>)
             ELSE IF ~v.valid THEN quarantine(v.errors)
             ELSE IF ~EmailPostInitOk(to, fixed.from.s, FixedParent(fixed))
                  THEN quarantine(<< <<"failed to create Email object", "">> >>)
             ELSE SecondPass(records, i + 1,
                             DictSet(valid_emails,
                                     Email(fixed.id.s, to, fixed.from.s, fixed.subject.s,
                                           fixed.content.s, fixed.timestamp.s,
                                           FixedParent(fixed), read_by, deleted_by)),
                             q)

\* the body of EmailStorage.initialize: it reads the two files and nothing
\* of the object but an empty _emails and _quarantined
StartUp ==
    /\ LET e == LoadEmails(diskEmails)
           q == LoadQuarantine(diskQuarantine)
           records == e.data.coll.items
           second == SecondPass(records, 1, <<>>, q.data.coll)
       IN  IF e.fatal
           THEN \* StorageInitError, before anything is written
                /\ phase' = "failed"
                /\ ret' = [Ret("initialize", "") EXCEPT !.exit = "StorageInitError"]
                /\ UNCHANGED <<emails, quarantined, diskEmails, diskQuarantine, backups>>
           ELSE IF FirstPassRaises(records) \/ second.raised
           THEN \* an exception of the validation passes leaves initialize
                /\ phase' = "failed"
                /\ ret' = [Ret("initialize", "") EXCEPT
                             !.exit = IF FirstPassRaises(records)
                                      THEN "TypeError or AttributeError in the first pass"
                                      ELSE "AttributeError in _quarantine_email"]
                /\ quarantined' = q.data.coll
                /\ diskEmails' = e.disk
                /\ diskQuarantine' = q.disk
                /\ backups' = backups \o e.backups \o q.backups
                /\ UNCHANGED emails
           ELSE /\ phase' = "ready"
                /\ ret' = [Ret("initialize", "") EXCEPT !.found = TRUE, !.exit = "returned"]
                /\ emails' = second.valid_emails
                /\ quarantined' = second.quarantined
                /\ diskEmails' = EmailsDocument(emails')
                /\ diskQuarantine' = QuarantineDocument(quarantined')
                /\ backups' = backups \o e.backups \o q.backups
    /\ UNCHANGED threadVars

\* EmailStorage.initialize on the store that was constructed
Initialize == phase = "constructed" /\ StartUp

\* a restart: a new process constructs the store on the same data directory
\* and runs initialize(); the memory of the old process is gone
Reopen == phase = "ready" /\ StartUp

(***************************************************************************)
(* SpecInit: initialize() on the files found in the data directory.        *)
(***************************************************************************)
Text(s) == JStr(s)

\* a JSON object with every key of the schema, well formed
GoodRecord(id, parent) ==
    [ kind |-> "object",
      id |-> JStr(id),
      to |-> JNames(<< <<"a">> >>),
      from |-> Text(<<"b">>),
      subject |-> Text(<<>>),
      content |-> Text(<<>>),
      timestamp |-> Text(<<"1", "Z">>),
      isResponseTo |-> IF parent = None THEN JNullId ELSE JStr(parent),
      readBy |-> JNames(<<>>),
      deletedBy |-> JNames(<<>>),
      extra |-> FALSE ]

\* a record that needs every repair: names in mixed case and with blanks,
\* a number and a duplicate among the recipients, no readBy, an unknown key
MessyRecord(id) ==
    [ GoodRecord(id, None) EXCEPT
        !.to = JList(<< JStr(<<" ", "A">>), [t |-> "int", s |-> <<"1">>], JStr(<<"a">>) >>),
        !.from = Text(<<"B", " ">>),
        !.subject = Text(<<" ", "c">>),
        !.readBy = MissingList,
        !.deletedBy = JNames(<< <<"A">>, <<"a">> >>),
        !.extra = TRUE ]

\* a JSON value that is no object, as a record of the array
ScalarRecord ==
    [ kind |-> "scalar", id |-> MissingId, to |-> MissingList, from |-> MissingText,
      subject |-> MissingText, content |-> MissingText, timestamp |-> MissingText,
      isResponseTo |-> MissingId, readBy |-> MissingList, deletedBy |-> MissingList,
      extra |-> FALSE ]

SampleRecords ==
    { GoodRecord("u1", None),
      GoodRecord("u2", "u1"),
      MessyRecord("u1"),
      [GoodRecord("u2", None) EXCEPT !.from = MissingText],
      [GoodRecord("bad", None) EXCEPT !.extra = TRUE],
      GoodRecord("", None),
      [GoodRecord("u1", None) EXCEPT !.id = [t |-> "int", s |-> "7"]],
      [GoodRecord("u1", None) EXCEPT !.id = [t |-> "list", s |-> "x"]],
      ScalarRecord,
      [GoodRecord("u1", None) EXCEPT !.id = MissingId],
      [GoodRecord("u2", None) EXCEPT !.to = JList(<<[t |-> "int", s |-> <<"1">>]>>)],
      [GoodRecord("u2", "bad") EXCEPT !.timestamp = Text(<<"1">>)] }

RECURSIVE SeqsUpTo(_, _)
\* the sequences over S of length at most n
SeqsUpTo(S, n) ==
    IF n = 0 THEN {<<>>}
    ELSE LET shorter == SeqsUpTo(S, n - 1)
         IN  shorter \cup {Append(q, x) : q \in shorter, x \in S}

OneRecord == JList(<<GoodRecord("u1", None)>>)

\* the message documents the startup may find
InitEmailFiles ==
    { Document(VersionOne, JList(records)) : records \in SeqsUpTo(SampleRecords, MaxRecords) }
    \cup
    { [Document(VersionOne, OneRecord) EXCEPT !.state = "absent"],
      [Document(VersionOne, OneRecord) EXCEPT !.state = "unparseable"],
      [Document(VersionOne, OneRecord) EXCEPT !.top = "other"],
      [Document(VersionOne, OneRecord) EXCEPT !.top = "null"],
      Document([t |-> "missing", v |-> 0], OneRecord),
      Document([t |-> "int", v |-> 2], OneRecord),
      Document([t |-> "str", v |-> 1], OneRecord),
      Document(VersionOne, [t |-> "missing", items |-> <<>>]),
      Document(VersionOne, [t |-> "other", items |-> <<>>]),
      Document([t |-> "int", v |-> 2], [t |-> "other", items |-> <<>>]) }

PriorEntry ==
    [ original |-> [GoodRecord("u2", None) EXCEPT !.from = MissingText],
      reason |-> << <<"missing required field", "from">> >>,
      quarantined_at |-> "before" ]

\* the quarantine documents the startup may find
InitQuarantineFiles ==
    { [EmptyDocument EXCEPT !.state = "absent"],
      [EmptyDocument EXCEPT !.state = "unparseable"],
      [EmptyDocument EXCEPT !.top = "other"],
      [EmptyDocument EXCEPT !.top = "null"],
      EmptyDocument,
      Document(VersionOne, JList(<<PriorEntry>>)),
      Document([t |-> "str", v |-> 1], JList(<<PriorEntry>>)),
      Document([t |-> "int", v |-> 2], JList(<<PriorEntry>>)),
      Document([t |-> "missing", v |-> 0], JList(<<PriorEntry>>)),
      Document(VersionOne, [t |-> "missing", items |-> <<>>]),
      Document(VersionOne, [t |-> "other", items |-> <<>>]) }

ConstructedInit ==
    /\ phase = "constructed"
    /\ emails = <<>>
    /\ quarantined = JList(<<>>)
    /\ diskEmails \in InitEmailFiles
    /\ diskQuarantine \in InitQuarantineFiles
    /\ backups = <<>>
    /\ ret = NoRet
    /\ OneCaller

NextInit == Initialize

SpecInit == ConstructedInit /\ [][NextInit]_vars

(***************************************************************************)
(* Reference definitions for the startup claims.                           *)
(***************************************************************************)
\* the raw records initialize() iterates over (emails_data['emails'])
LoadedRecords(doc) ==
    IF LoadEmails(doc).fatal THEN <<>> ELSE LoadEmails(doc).data.coll.items

\* the quarantine entries appended by this initialize()
NewEntries(q) == SelectSeq(q.items, LAMBDA entry : entry.quarantined_at = "now")

\* the number of new quarantine entries made for the raw record r
EntriesFor(q, r) ==
    Cardinality({k \in 1..Len(NewEntries(q)) : NewEntries(q)[k].original = r})

\* the number of raw records equal to r
CopiesOf(records, r) == Cardinality({j \in 1..Len(records) : records[j] = r})

\* record i carries an id that another record carries too
SharesId(records, i) ==
    /\ records[i].id.t # "missing"
    /\ \E j \in 1..Len(records) : j # i /\ records[j].id = records[i].id

\* a live message stems from record i
IsLive(store, records, i) ==
    \E k \in 1..Len(store) : JStr(store[k].id) = records[i].id

(***************************************************************************)
(* C1: when initialize() has returned, no raw record of the loaded         *)
(* message document that shares its id with another record is in get_all() *)
(* and each such record has a quarantine entry of its own, whether or not  *)
(* the record is otherwise valid.                                          *)
(***************************************************************************)
C1_DuplicatesAllQuarantined ==
    [][ (phase = "constructed" /\ phase' = "ready") =>
            LET records == LoadedRecords(diskEmails)
            IN  \A i \in 1..Len(records) :
                    SharesId(records, i) =>
                        /\ ~IsLive(emails', records, i)
                        /\ EntriesFor(quarantined', records[i]) >= CopiesOf(records, records[i])
      ]_vars

\* initialize() has returned with a message loaded and with two new entries
\* for one id, the first for a valid record and the second for an invalid one
C1_Witness ==
    /\ phase = "ready"
    /\ ret.op = "initialize"
    /\ Len(emails) >= 1
    /\ quarantined.t = "list"
    /\ \E k1, k2 \in 1..Len(quarantined.items) :
          LET first == quarantined.items[k1]
              second == quarantined.items[k2]
          IN  /\ k1 < k2
              /\ first.quarantined_at = "now"
              /\ second.quarantined_at = "now"
              /\ first.original.id = second.original.id
              /\ first.reason = << <<"duplicate id", "id">> >>
              /\ second.reason = << <<"duplicate id", "id">> >>
              /\ validate_email_data(first.original).valid
              /\ ~validate_email_data(second.original).valid
              /\ \A k \in 1..Len(emails) : JStr(emails[k].id) # first.original.id

\* a message document that initialize() accepts: a JSON object with a
\* supported version whose emails field is an array
EmailsIsArray(doc) ==
    /\ doc.state = "parsed"
    /\ doc.top = "object"
    /\ validate_version(doc.version)
    /\ doc.coll.t = "list"

(***************************************************************************)
(* C2, as claimed: for a message document whose emails field is an array,  *)
(* initialize() completes, every raw record of the array is in exactly one *)
(* of the live map and the new quarantine entries, and the number of live  *)
(* messages plus the number of new quarantine entries is the number of raw *)
(* records.                                                                *)
(***************************************************************************)
C2_EveryRecordPlaced ==
    [][ (phase = "constructed" /\ EmailsIsArray(diskEmails) /\ phase' # phase) =>
            LET records == diskEmails.coll.items
            IN  /\ phase' = "ready"
                /\ Len(emails') + Len(NewEntries(quarantined')) = Len(records)
                /\ \A i \in 1..Len(records) :
                      IsLive(emails', records, i)
                          <=> EntriesFor(quarantined', records[i]) = 0
      ]_vars

(***************************************************************************)
(* SpecStore: the life of one store.  initialize() loads one of a few      *)
(* message documents; afterwards callers create, update and delete         *)
(* messages and mark them read or deleted.  A caller builds an Email with  *)
(* any id and timestamp (the constructor checks neither) and passes any    *)
(* viewer name to the status services, a blank one included.               *)
(***************************************************************************)
StoreIds == {"u1", "bad"}

\* name arguments: one to trim and lowercase, one already normal, one blank
StoreViewers == { <<" ", "A">>, <<"a">>, <<" ">> }

\* the timestamp a caller gives the message with this id
StoreTimestamp(id) == IF id = "u1" THEN <<"1", "Z">> ELSE <<"c">>

StoreEmails ==
    { Email(id, << <<"A", " ">>, <<"a">> >>, <<"B">>, subject, <<>>, StoreTimestamp(id),
            IF id = "u1" THEN None ELSE "u1",
            IF id = "u1" THEN <<>> ELSE << <<"B">>, <<"b", " ">> >>, <<>>) :
        id \in StoreIds, subject \in { <<>>, <<"c">> } }

StoreFiles ==
    { [EmptyDocument EXCEPT !.state = "absent"],
      Document(VersionOne, JList(<<MessyRecord("u1")>>)),
      Document(VersionOne, JList(<<MessyRecord("u1"), GoodRecord("bad", None)>>)),
      Document(VersionOne, JList(<<GoodRecord("u1", None), MessyRecord("u1")>>)) }

StoreInit ==
    /\ phase = "constructed"
    /\ emails = <<>>
    /\ quarantined = JList(<<>>)
    /\ diskEmails \in StoreFiles
    /\ diskQuarantine = [EmptyDocument EXCEPT !.state = "absent"]
    /\ backups = <<>>
    /\ ret = NoRet
    /\ OneCaller

NextStore ==
    \/ Initialize
    \/ \E e \in StoreEmails : Create(e)
    \/ \E e \in StoreEmails : Update(e)
    \/ \E id \in StoreIds : Delete(id)
    \/ \E id \in StoreIds, v \in StoreViewers : MarkAsRead(id, v)
    \/ \E id \in StoreIds, v \in StoreViewers \ {<<" ">>} : MarkAsDeleted(id, v)

SpecStore == StoreInit /\ [][NextStore]_vars

\* the call that has just returned, made once more on the store it left
MarkAgain(store, r) ==
    IF r.op = "mark_as_read"
    THEN mark_as_read(store, r.id, r.viewer)
    ELSE mark_as_deleted(store, r.id, r.viewer)

(***************************************************************************)
(* C11: mark_as_read and mark_as_deleted are idempotent.  When a call      *)
(* for a stored message has returned True, the same call made again        *)
(* returns True and leaves the store, hence the readBy / deletedBy         *)
(* sequences, and the document on disk as the first call left them; this   *)
(* for names in any letter case and with surrounding blanks.               *)
(***************************************************************************)
C11_MarkIdempotent ==
    [][ (ret'.op \in {"mark_as_read", "mark_as_deleted"} /\ ret'.found) =>
            LET again == MarkAgain(emails', ret')
            IN  /\ again.found
                /\ again.store = emails'
                /\ EmailsDocument(again.store) = diskEmails'
      ]_vars

\* mark_as_read has returned True for a name that had to be trimmed and
\* lowercased, on a message that another name had read before
C11_Witness ==
    /\ ret.op = "mark_as_read"
    /\ ret.found
    /\ normalize_name(ret.viewer) # ret.viewer
    /\ normalize_name(ret.viewer) # <<>>
    /\ LET m == emails[IndexOf(emails, ret.id)]
       IN  /\ Len(m.read_by) >= 2
           /\ m.read_by[Len(m.read_by)] = normalize_name(ret.viewer)

\* a name is trimmed, lowercase and not empty
NormalName(name) == name # <<>> /\ normalize_name(name) = name

\* no entry of the sequence occurs twice
NoDuplicates(names) ==
    \A i, j \in 1..Len(names) : names[i] = names[j] => i = j

(***************************************************************************)
(* C12, as claimed: every message held by the store, after initialize()    *)
(* and after any sequence of create, update, mark_as_read and              *)
(* mark_as_deleted calls, has a non-empty to, only trimmed, lowercase and  *)
(* non-empty names in to, from, readBy and deletedBy, and no duplicate     *)
(* inside to, readBy or deletedBy.                                         *)
(***************************************************************************)
C12_NamesNormalized ==
    phase = "ready" =>
        \A m \in Range(emails) :
            /\ m.to # <<>>
            /\ NormalName(m.from_)
            /\ \A name \in Range(m.to) \cup Range(m.read_by) \cup Range(m.deleted_by) :
                  NormalName(name)
            /\ NoDuplicates(m.to)
            /\ NoDuplicates(m.read_by)
            /\ NoDuplicates(m.deleted_by)

(***************************************************************************)
(* C13, as claimed: every message held by the store, after initialize()    *)
(* and after any sequence of create and update calls, has an id that is a  *)
(* syntactically valid identifier, an isResponseTo that is absent or a     *)
(* syntactically valid identifier, and a timestamp that parses under the   *)
(* fixed format.                                                           *)
(***************************************************************************)
C13_IdsAndTimestampsValid ==
    phase = "ready" =>
        \A m \in Range(emails) :
            /\ validate_uuid(m.id)
            /\ m.is_response_to = None \/ validate_uuid(m.is_response_to)
            /\ validate_timestamp(JStr(m.timestamp))

(***************************************************************************)
(* C14: in every reachable state of the store no two messages returned by  *)
(* get_all() have the same id, whatever initialize, create (also with an   *)
(* id that is already stored), update and delete did before.               *)
(***************************************************************************)
C14_IdsUnique ==
    \A i, j \in 1..Len(emails) : emails[i].id = emails[j].id => i = j

\* create has replaced the first of two stored messages
C14_Witness ==
    /\ ret.op = "create"
    /\ Len(emails) = 2
    /\ emails[1] = ret.email[1]
    /\ emails[2].id # emails[1].id

\* the message document is unparseable, is not a JSON object, lacks version,
\* or has an emails field that is not an array
EmailsMalformed(doc) ==
    \/ doc.state = "unparseable"
    \/ /\ doc.state = "parsed"
       /\ \/ doc.top # "object"
          \/ doc.version.t = "missing"
          \/ doc.coll.t \notin {"list", "missing"}

(***************************************************************************)
(* C15, as claimed: initialize() fails with the fatal init error when the  *)
(* message document is unparseable, is not a JSON object, lacks version or *)
(* has an emails field that is not an array; then no message is loaded and *)
(* no file is written, renamed or created.                                 *)
(***************************************************************************)
C15_MalformedIsFatal ==
    [][ (phase = "constructed" /\ EmailsMalformed(diskEmails) /\ phase' # phase) =>
            /\ phase' = "failed"
            /\ ret'.exit = "StorageInitError"
            /\ emails' = <<>>
            /\ diskEmails' = diskEmails
            /\ diskQuarantine' = diskQuarantine
            /\ backups' = backups
      ]_vars

\* p is a prefix of q
IsPrefix(p, q) == Len(p) <= Len(q) /\ SubSeq(q, 1, Len(p)) = p

\* the records of an existing message document are all accounted for after
\* the step: the file is untouched, or each record is live or quarantined
EmailsKept(before, after, store, q) ==
    \/ after = before
    \/ /\ before.state = "parsed"
       /\ before.top = "object"
       /\ before.coll.t \in {"list", "missing"}
       /\ \A i \in 1..Len(before.coll.items) :
             \/ IsLive(store, before.coll.items, i)
             \/ EntriesFor(q, before.coll.items[i]) > 0

\* the entries of an existing quarantine document are still there after the
\* step: the file is untouched, or its entries head the new document
QuarantineKept(before, after) ==
    \/ after = before
    \/ /\ before.state = "parsed"
       /\ before.top = "object"
       /\ before.coll.t # "missing"
       /\ \/ after.coll = before.coll
          \/ /\ before.coll.t = "list"
             /\ after.coll.t = "list"
             /\ IsPrefix(before.coll.items, after.coll.items)

(***************************************************************************)
(* C16, as claimed: initialize() never overwrites or drops an existing     *)
(* document without a backup.  When the content of an existing document    *)
(* does not survive the startup (in the live map, in quarantine or in the  *)
(* untouched file), the original is among the backups under the name of    *)
(* its file, and an empty version-1 document took its place before the     *)
(* records were processed.                                                 *)
(***************************************************************************)
C16_DiscardOnlyWithBackup ==
    [][ (phase = "constructed" /\ phase' # phase) =>
            /\ (diskEmails.state # "absent"
                    /\ ~EmailsKept(diskEmails, diskEmails', emails', quarantined'))
                  => /\ BackupFile("emails.json", "old", diskEmails) \in Range(backups')
                     /\ LoadEmails(diskEmails).disk = EmptyDocument
            /\ (diskQuarantine.state # "absent"
                    /\ ~QuarantineKept(diskQuarantine, diskQuarantine'))
                  => /\ BackupFile("quarantine.json", "bak", diskQuarantine) \in Range(backups')
                     /\ LoadQuarantine(diskQuarantine).disk = EmptyDocument
      ]_vars

\* the quarantine document has the shape the store writes
QuarantineWellFormed(doc) ==
    /\ doc.state = "parsed"
    /\ doc.top = "object"
    /\ validate_version(doc.version)
    /\ doc.coll.t = "list"

\* the message document alone does not stop the startup
EmailsLoadable(doc) ==
    /\ ~LoadEmails(doc).fatal
    /\ ~FirstPassRaises(LoadedRecords(doc))

\* every entry of the in-memory quarantine from position n + 1 on was
\* appended by this startup
NewAfter(q, n) ==
    /\ q.t = "list"
    /\ \A k \in (n + 1)..Len(q.items) : q.items[k].quarantined_at = "now"

(***************************************************************************)
(* C17, as claimed: no defect of the quarantine document makes             *)
(* initialize() fail, startup continues with an empty quarantine (holding  *)
(* only what this startup appends); when the quarantine document is well   *)
(* formed its prior entries are kept unchanged and in order, ahead of the  *)
(* entries appended by this startup.                                       *)
(***************************************************************************)
C17_QuarantineNeverFatal ==
    [][ (phase = "constructed" /\ phase' # phase /\ EmailsLoadable(diskEmails)) =>
            /\ phase' = "ready"
            /\ IF QuarantineWellFormed(diskQuarantine)
               THEN /\ quarantined'.t = "list"
                    /\ IsPrefix(diskQuarantine.coll.items, quarantined'.items)
                    /\ NewAfter(quarantined', Len(diskQuarantine.coll.items))
               ELSE NewAfter(quarantined', 0)
      ]_vars

\* the document that holds exactly the messages of the store, in its order
SnapshotOf(store) ==
    [ state |-> "parsed", top |-> "object", version |-> [t |-> "int", v |-> 1],
      coll |-> [t |-> "list", items |-> [i \in 1..Len(store) |-> to_dict(store[i])]] ]

(***************************************************************************)
(* C18: when initialize() has returned normally, the message document on   *)
(* disk holds exactly the live in-memory messages, each in repaired form   *)
(* (the validator accepts it and changes nothing) and none of them a       *)
(* record quarantined by this startup, and the quarantine document holds   *)
(* exactly the in-memory quarantine list.                                  *)
(***************************************************************************)
C18_DiskIsMemoryAfterInit ==
    (phase = "ready" /\ ret.op = "initialize") =>
        /\ diskEmails = SnapshotOf(emails)
        /\ \A i \in 1..Len(diskEmails.coll.items) :
              LET r == diskEmails.coll.items[i]
              IN  /\ validate_email_data(r).valid
                  /\ validate_email_data(r).fixed = r
                  /\ EntriesFor(quarantined, r) = 0
        /\ diskQuarantine.state = "parsed"
        /\ diskQuarantine.top = "object"
        /\ diskQuarantine.version = [t |-> "int", v |-> 1]
        /\ diskQuarantine.coll = quarantined

\* initialize() has returned with a repaired message loaded, an entry kept
\* from the prior quarantine document and an entry it appended itself
C18_Witness ==
    /\ phase = "ready"
    /\ ret.op = "initialize"
    /\ \E m \in Range(emails) : m.deleted_by = << <<"a">> >>
    /\ quarantined.t = "list"
    /\ Len(quarantined.items) >= 2
    /\ quarantined.items[1].quarantined_at = "before"
    /\ quarantined.items[2].quarantined_at = "now"

C20_CreateStoresAndReplaces ==
    [][ ret'.op = "create" =>
            LET m == ret'.email[1]
            IN  /\ ret'.found
                /\ DictGet(emails', m.id) = <<m>>
                /\ Len(emails') = IF Stored(emails, m.id) THEN Len(emails) ELSE Len(emails) + 1
                /\ StoredIds(emails') = StoredIds(emails) \cup {m.id}
                /\ \A x \in StoredIds(emails) \ {m.id} :
                      DictGet(emails', x) = DictGet(emails, x)
      ]_vars

\* create has put a message in the place of the first of two stored ones,
\* next to a message that had been marked deleted
C20_Witness ==
    /\ ret.op = "create"
    /\ Len(emails) = 2
    /\ emails[1].id = ret.id
    /\ emails[1] = ret.email[1]
    /\ emails[1].subject = <<"c">>
    /\ emails[2].deleted_by # <<>>

(***************************************************************************)
(* C21: update, delete, mark_as_read and mark_as_deleted called with an id *)
(* that is not stored report it as a value (not found / false / False)     *)
(* and change nothing: the message is not created, and the store, the      *)
(* quarantine and both documents on disk stay as they were.                *)
(***************************************************************************)
C21_AbsentIdChangesNothing ==
    [][ ( /\ ret'.op \in {"update", "delete", "mark_as_read", "mark_as_deleted"}
          /\ ~Stored(emails, ret'.id) ) =>
            /\ ~ret'.found
            /\ ~Stored(emails', ret'.id)
            /\ UNCHANGED <<emails, quarantined, diskEmails, diskQuarantine, backups>>
      ]_vars

\* delete has returned false for an id that a store holding another message
\* does not hold
C21_Witness ==
    /\ ret.op = "delete"
    /\ ~ret.found
    /\ emails # <<>>
    /\ ~Stored(emails, ret.id)

(***************************************************************************)
(* C22: delete of a stored id returns true and permanently removes exactly *)
(* that message: afterwards exists(id) is false and get_by_id(id) is       *)
(* absent, while every other message is still stored and unchanged, the    *)
(* replies to the deleted message included: their isResponseTo still       *)
(* names the missing id.                                                   *)
(***************************************************************************)
C22_DeleteRemovesExactlyOne ==
    [][ (ret'.op = "delete" /\ Stored(emails, ret'.id)) =>
            /\ ret'.found
            /\ ~Stored(emails', ret'.id)
            /\ DictGet(emails', ret'.id) = <<>>
            /\ Len(emails') = Len(emails) - 1
            /\ \A id \in StoredIds(emails) \ {ret'.id} :
                   DictGet(emails', id) = DictGet(emails, id)
      ]_vars

\* delete has returned true and a reply to the deleted message is still stored
C22_Witness ==
    /\ ret.op = "delete"
    /\ ret.found
    /\ ~Stored(emails, ret.id)
    /\ \E i \in 1..Len(emails) : emails[i].is_response_to = ret.id

(***************************************************************************)
(* SpecRecord: initialize() on a message document of one raw record, the   *)
(* record drawn from every combination of well formed, repairable, wrongly *)
(* typed and missing fields.                                               *)
(***************************************************************************)
RecordSpace ==
    LET IntItem == [t |-> "int", s |-> <<"1">>]
        ids == { JStr("u1"), JStr("bad"), [t |-> "int", s |-> "7"], MissingId }
        tos == { JNames(<< <<"a">> >>),
                 JList(<< JStr(<<" ", "B">>), IntItem, JStr(<<"a">>), JStr(<<"b">>),
                          JStr(<<" ">>) >>),
                 JList(<<IntItem>>),
                 [t |-> "str", items |-> <<>>],
                 MissingList }
        froms == { Text(<<"b">>), Text(<<"B", " ">>), Text(<<" ">>), IntItem, MissingText }
        subjects == { Text(<<" ", "c">>), IntItem }
        contents == { Text(<<>>), MissingText }
        timestamps == { Text(<<"1", "Z">>), Text(<<"1">>) }
        parents == { JNullId, MissingId, JStr("bad") }
        readBys == { MissingList,
                     JList(<< JStr(<<"B", " ">>), IntItem, JStr(<<"b">>) >>),
                     [t |-> "str", items |-> <<>>] }
        deletedBys == { MissingList, JNames(<< <<"A">>, <<"a">> >>) }
    IN  { [ kind |-> "object", id |-> id, to |-> to, from |-> from, subject |-> subject,
            content |-> content, timestamp |-> timestamp, isResponseTo |-> parent,
            readBy |-> readBy, deletedBy |-> deletedBy, extra |-> extra ] :
            id \in ids, to \in tos, from \in froms, subject \in subjects,
            content \in contents, timestamp \in timestamps, parent \in parents,
            readBy \in readBys, deletedBy \in deletedBys, extra \in BOOLEAN }

RecordInit ==
    /\ phase = "constructed"
    /\ emails = <<>>
    /\ quarantined = JList(<<>>)
    /\ diskEmails \in { Document(VersionOne, JList(<<r>>)) : r \in RecordSpace }
    /\ diskQuarantine = [EmptyDocument EXCEPT !.state = "absent"]
    /\ backups = <<>>
    /\ ret = NoRet
    /\ OneCaller

SpecRecord == RecordInit /\ [][Initialize]_vars

(***************************************************************************)
(* Reference definitions for the validation claims, from the record schema *)
(* and not from the validator.                                             *)
(***************************************************************************)
AllFields == RequiredFields \o <<"isResponseTo", "readBy", "deletedBy">>

\* the field is present and has a type or a format the schema does not allow
WrongShape(r, field) ==
    CASE field = "id" -> r.id.t # "missing" /\ (r.id.t # "str" \/ r.id.s \notin UUIDs)
      [] field = "to" -> r.to.t \notin {"missing", "list"}
      [] field = "from" -> r.from.t \notin {"missing", "str"}
      [] field = "subject" -> r.subject.t \notin {"missing", "str"}
      [] field = "content" -> r.content.t \notin {"missing", "str"}
      [] field = "timestamp" ->
             r.timestamp.t # "missing" /\ r.timestamp \notin {Text(<<"1", "Z">>)}
      [] field = "isResponseTo" ->
             /\ r.isResponseTo.t \notin {"missing", "null"}
             /\ (r.isResponseTo.t # "str" \/ r.isResponseTo.s \notin UUIDs)
      [] field = "readBy" -> r.readBy.t \notin {"missing", "list"}
      [] field = "deletedBy" -> r.deletedBy.t \notin {"missing", "list"}

(***************************************************************************)
(* C29: the reason stored with a record quarantined at startup lists every *)
(* violation of the record: every missing required field is named, and    *)
(* every present field of a wrong type or shape is reported as well.       *)
(***************************************************************************)
C29_ReasonListsEveryViolation ==
    phase = "ready" =>
        \A k \in 1..Len(NewEntries(quarantined)) :
            LET entry == NewEntries(quarantined)[k]
                r == entry.original
            IN  /\ \A f \in Range(RequiredFields) :
                       FieldMissing(r, f) =>
                           <<"missing required field", f>> \in Range(entry.reason)
                /\ \A f \in Range(AllFields) :
                       WrongShape(r, f) =>
                           \E err \in Range(entry.reason) :
                               err[2] = f /\ err[1] # "missing required field"

(***************************************************************************)
(* The repaired form of a record, from the description of the repairs.     *)
(***************************************************************************)
\* the positions of a JSON array that survive the repair of a name list:
\* strings that are not blank and whose name no earlier kept entry has
KeptPositions(items) ==
    { i \in 1..Len(items) :
        /\ items[i].t = "str"
        /\ normalize_name(items[i].s) # <<>>
        /\ \A j \in 1..(i - 1) :
               items[j].t = "str" => normalize_name(items[j].s) # normalize_name(items[i].s) }

\* the names at those positions, normalized, in the order of the array
RepairedNames(list) ==
    IF list.t # "list" THEN <<>>
    ELSE LET P == KeptPositions(list.items)
             pos(k) == CHOOSE i \in P : Cardinality({j \in P : j < i}) = k - 1
         IN  [k \in 1..Cardinality(P) |-> normalize_name(list.items[pos(k)].s)]

\* every field is present where required and of the type and format of the
\* schema, so that all that is left to do is the repairs
OnlyRepairable(r) ==
    /\ r.kind = "object"
    /\ \A f \in Range(RequiredFields) : ~FieldMissing(r, f)
    /\ \A f \in Range(AllFields) : ~WrongShape(r, f)

\* the message a repaired record is loaded as
RepairedEmail(r) ==
    [ id |-> r.id.s,
      to |-> RepairedNames(r.to),
      from_ |-> normalize_name(r.from.s),
      subject |-> Strip(r.subject.s),
      content |-> Strip(r.content.s),
      timestamp |-> r.timestamp.s,
      is_response_to |-> IF r.isResponseTo.t = "str" THEN r.isResponseTo.s ELSE None,
      read_by |-> RepairedNames(r.readBy),
      deleted_by |-> RepairedNames(r.deletedBy) ]

\* initialize() has loaded record i of the document in its repaired form
LoadedRepaired(records, i, store, q) ==
    /\ DictGet(store, records[i].id.s) = <<RepairedEmail(records[i])>>
    /\ EntriesFor(q, records[i]) = 0

\* initialize() has quarantined record i of the document
Quarantined(records, i, store, q) ==
    /\ ~Stored(store, records[i].id.s)
    /\ EntriesFor(q, records[i]) = 1

(***************************************************************************)
(* C30 as stated: a record whose only defects are repairable and whose id  *)
(* no other record has is loaded in its repaired form (names normalized,   *)
(* missing readBy / deletedBy empty, non-string entries dropped, duplicate *)
(* names collapsed to the first occurrence in order, unknown keys gone),   *)
(* and it is quarantined only if `to` is empty after the repair.           *)
(***************************************************************************)
C30_QuarantinedOnlyIfToEmpty ==
    [][ (phase = "constructed" /\ phase' = "ready") =>
            LET records == LoadedRecords(diskEmails)
            IN  \A i \in 1..Len(records) :
                    (OnlyRepairable(records[i]) /\ ~SharesId(records, i)) =>
                        IF RepairedNames(records[i].to) = <<>>
                        THEN Quarantined(records, i, emails', quarantined')
                        ELSE LoadedRepaired(records, i, emails', quarantined')
      ]_vars

(***************************************************************************)
(* C30 amended: such a record is loaded in its repaired form, and it is    *)
(* quarantined only if `to` or `from` is empty after the repair.           *)
(***************************************************************************)
C30_QuarantinedOnlyIfToOrFromEmpty ==
    [][ (phase = "constructed" /\ phase' = "ready") =>
            LET records == LoadedRecords(diskEmails)
            IN  \A i \in 1..Len(records) :
                    (OnlyRepairable(records[i]) /\ ~SharesId(records, i)) =>
                        IF \/ RepairedNames(records[i].to) = <<>>
                           \/ normalize_name(records[i].from.s) = <<>>
                        THEN Quarantined(records, i, emails', quarantined')
                        ELSE LoadedRepaired(records, i, emails', quarantined')
      ]_vars

\* a record that needed every repair has been loaded: two recipients left of
\* five entries, the sender trimmed and lowercased, one reader left of three
C30_Witness ==
    /\ phase = "ready"
    /\ ret.op = "initialize"
    /\ \E i \in 1..Len(emails) :
           /\ emails[i].to = << <<"b">>, <<"a">> >>
           /\ emails[i].from_ = <<"b">>
           /\ emails[i].read_by = << <<"b">> >>
           /\ emails[i].deleted_by = << <<"a">> >>
    /\ quarantined.items = <<>>

(***************************************************************************)
(* SpecQuarantine: the store of SpecStore with a quarantine document that  *)
(* may hold an earlier entry, and with callers of add_to_quarantine.       *)
(***************************************************************************)
\* EmailStorage.add_to_quarantine: _quarantine_email, then _save_quarantine;
\* append on a _quarantined that is no list raises AttributeError
AddToQuarantine(email_data, reason) ==
    /\ phase = "ready"
    /\ IF quarantined.t # "list"
       THEN /\ ret' = [Ret("add_to_quarantine", "") EXCEPT
                         !.list = <<email_data>>, !.exit = "AttributeError"]
            /\ UNCHANGED <<quarantined, diskQuarantine>>
       ELSE /\ Len(quarantined.items) < MaxQuarantine
            /\ quarantined' = JList(Append(quarantined.items,
                                           QuarantineEntry(email_data, reason)))
            /\ diskQuarantine' = QuarantineDocument(quarantined')
            /\ ret' = [Ret("add_to_quarantine", "") EXCEPT
                         !.list = <<email_data>>, !.found = TRUE]
    /\ UNCHANGED <<phase, emails, diskEmails, backups>>
    /\ UNCHANGED threadVars

QuarantineInit ==
    /\ phase = "constructed"
    /\ emails = <<>>
    /\ quarantined = JList(<<>>)
    /\ diskEmails \in StoreFiles
    /\ diskQuarantine \in { [EmptyDocument EXCEPT !.state = "absent"],
                            Document(VersionOne, JList(<<PriorEntry>>)) }
    /\ backups = <<>>
    /\ ret = NoRet
    /\ OneCaller

NextQuarantine ==
    \/ Initialize
    \/ \E e \in StoreEmails : Create(e)
    \/ \E e \in StoreEmails : Update(e)
    \/ \E id \in StoreIds : Delete(id)
    \/ \E r \in {MessyRecord("u1"), GoodRecord("bad", None)} :
           AddToQuarantine(r, << <<"rejected by the caller", "">> >>)

SpecQuarantine == QuarantineInit /\ [][NextQuarantine]_vars

(***************************************************************************)
(* C28: the quarantine is append-only.  Only initialize() and              *)
(* add_to_quarantine change the list, and only by appending: the entries   *)
(* held before stay first, unchanged and in order.  create, update and     *)
(* delete leave the list and its document unchanged, add_to_quarantine     *)
(* leaves the message collection and its document unchanged, and the       *)
(* original of every new entry is the raw record as read from the message  *)
(* document or as passed in, not its repaired form.                        *)
(***************************************************************************)
C28_QuarantineAppendOnly ==
    [][ /\ IsPrefix(quarantined.items, quarantined'.items)
        /\ quarantined' # quarantined => ret'.op \in {"initialize", "add_to_quarantine"}
        /\ ret'.op \in {"create", "update", "delete"} =>
               UNCHANGED <<quarantined, diskQuarantine>>
        /\ ret'.op = "add_to_quarantine" =>
               /\ UNCHANGED <<emails, diskEmails>>
               /\ Len(quarantined'.items) = Len(quarantined.items) + 1
               /\ quarantined'.items[Len(quarantined'.items)].original = ret'.list[1]
               /\ diskQuarantine'.coll = quarantined'
        /\ ret'.op = "initialize" =>
               /\ \A k \in 1..Len(NewEntries(quarantined')) :
                      \E i \in 1..Len(LoadedRecords(diskEmails)) :
                          NewEntries(quarantined')[k].original = LoadedRecords(diskEmails)[i]
               /\ phase' = "ready" =>
                      /\ IsPrefix(LoadQuarantine(diskQuarantine).data.coll.items,
                                  quarantined'.items)
                      /\ diskQuarantine'.coll = quarantined'
      ]_vars

\* the startup has quarantined a record that a repair would have changed,
\* after an entry of an earlier run, and a caller has added one more entry
C28_Witness ==
    /\ ret.op = "add_to_quarantine"
    /\ Len(quarantined.items) = MaxQuarantine
    /\ quarantined.items[1] = PriorEntry
    /\ quarantined.items[2].original = MessyRecord("u1")
    /\ quarantined.items[2].original # validate_email_data(MessyRecord("u1")).fixed
    /\ emails # <<>>

(***************************************************************************)
(* The store operations statement by statement, for callers on several     *)
(* threads.  A thread is at a label (pc) and keeps its arguments and local *)
(* variables in loc.  A message that is being marked is never replaced in  *)
(* these specifications, so its id stands for the Email object that        *)
(* get_by_id handed out.                                                   *)
(***************************************************************************)
\* the thread goes to a label with new local variables
SetThread(t, label, locals) ==
    /\ pc' = [pc EXCEPT ![t] = label]
    /\ loc' = [loc EXCEPT ![t] = locals]
    /\ UNCHANGED <<phase, quarantined, diskQuarantine, backups, ret>>

\* self._queue_lock of the instance the thread works on
QueueLock(t) == instances[loc[t].inst].queue_lock

\* with self._queue_lock: entering
Acquire(t) ==
    /\ CanAcquire(t, QueueLock(t))
    /\ instances' = [instances EXCEPT ![loc[t].inst].queue_lock = t]

\* with self._queue_lock: leaving the outermost block
Release(t) == instances' = [instances EXCEPT ![loc[t].inst].queue_lock = "free"]

\* EmailStorage.create: _execute_with_lock(_create)
ThreadCreate(t, email) ==
    \/ /\ pc[t] = "idle"
       /\ ~Stored(emails, email.id)
       /\ SetThread(t, "create_enter",
                    [NoLocals EXCEPT !.op = "create", !.inst = loc[t].inst,
                                     !.email = <<email>>, !.id = email.id])
       /\ UNCHANGED <<emails, diskEmails, instances, cls, epoch>>
    \/ /\ pc[t] = "create_enter"
       /\ loc[t].email = <<email>>
       /\ Acquire(t)
       /\ SetThread(t, "create_store", loc[t])
       /\ UNCHANGED <<emails, diskEmails, cls, epoch>>
    \/ /\ pc[t] = "create_store"
       /\ loc[t].email = <<email>>
       /\ emails' = DictSet(emails, email)
       /\ SetThread(t, "save_snapshot", loc[t])
       /\ UNCHANGED <<diskEmails, instances, cls, epoch>>

\* _save_emails, which enters _execute_with_lock again for the write, and
\* the end of the _execute_with_lock that called it
ThreadSave(t) ==
    \/ /\ pc[t] = "save_snapshot"
       /\ Acquire(t)
       /\ SetThread(t, "save_write", [loc[t] EXCEPT !.snap = <<EmailsDocument(emails)>>])
       /\ UNCHANGED <<emails, diskEmails, cls, epoch>>
    \/ /\ pc[t] = "save_write"
       /\ diskEmails' = loc[t].snap[1]
       /\ SetThread(t, "leave", loc[t])
       /\ UNCHANGED <<emails, instances, cls, epoch>>
    \/ /\ pc[t] = "leave"
       /\ Release(t)
       /\ SetThread(t, "idle", [loc[t] EXCEPT !.ret = "True", !.snap = <<>>])
       /\ UNCHANGED <<emails, diskEmails, cls, epoch>>

\* the names of the field that the mark call works on
MarkedNames(e, field) == IF field = "read_by" THEN e.read_by ELSE e.deleted_by

\* self.read_by.append(normalized) / self.deleted_by.append(normalized) on
\* the stored object
AppendName(store, id, field, name) ==
    IF field = "read_by"
    THEN [store EXCEPT ![IndexOf(store, id)].read_by = Append(@, name)]
    ELSE [store EXCEPT ![IndexOf(store, id)].deleted_by = Append(@, name)]

\* the Email object that get_by_id handed to the thread: the stored one, or
\* the one kept in loc[t].email once a delete has taken it out of the store
HeldEmail(t) == IF loc[t].email # <<>> THEN loc[t].email[1] ELSE DictGet(emails, loc[t].id)[1]

\* services.mark_as_read / mark_as_deleted: get_by_id, Email.mark_read_by /
\* mark_deleted_by on the object (outside the lock), EmailStorage.update,
\* whose result is not looked at, and return True
ThreadMark(t, email_id, viewer, field) ==
    \/ /\ pc[t] = "idle"
       /\ Stored(emails, email_id) =>
              Len(MarkedNames(DictGet(emails, email_id)[1], field)) < MaxNames
       /\ SetThread(t, "mark_get",
                    [NoLocals EXCEPT !.op = "mark", !.inst = loc[t].inst, !.id = email_id,
                                     !.name = viewer, !.field = field])
       /\ UNCHANGED <<emails, diskEmails, instances, cls, epoch>>
    \/ /\ pc[t] = "mark_get"
       /\ loc[t].id = email_id /\ loc[t].name = viewer /\ loc[t].field = field
       /\ CanAcquire(t, QueueLock(t))
       /\ IF Stored(emails, email_id)
          THEN SetThread(t, "mark_test", [loc[t] EXCEPT !.name = normalize_name(viewer)])
          ELSE SetThread(t, "idle", [loc[t] EXCEPT !.ret = "False"])
       /\ UNCHANGED <<emails, diskEmails, instances, cls, epoch>>
    \/ /\ pc[t] = "mark_test"
       /\ loc[t].id = email_id /\ loc[t].name = normalize_name(viewer) /\ loc[t].field = field
       /\ SetThread(t, "mark_append",
                    [loc[t] EXCEPT !.absent =
                        loc[t].name \notin Range(MarkedNames(HeldEmail(t), field))])
       /\ UNCHANGED <<emails, diskEmails, instances, cls, epoch>>
    \/ /\ pc[t] = "mark_append"
       /\ loc[t].id = email_id /\ loc[t].name = normalize_name(viewer) /\ loc[t].field = field
       /\ IF loc[t].email = <<>>
          THEN /\ emails' = IF loc[t].absent
                            THEN AppendName(emails, email_id, field, loc[t].name)
                            ELSE emails
               /\ SetThread(t, "update_enter", loc[t])
          ELSE /\ UNCHANGED emails
               /\ SetThread(t, "update_enter",
                            [loc[t] EXCEPT !.email =
                                IF loc[t].absent
                                THEN AppendName(loc[t].email, email_id, field, loc[t].name)
                                ELSE @])
       /\ UNCHANGED <<diskEmails, instances, cls, epoch>>
    \/ /\ pc[t] = "update_enter"
       /\ loc[t].id = email_id /\ loc[t].name = normalize_name(viewer) /\ loc[t].field = field
       /\ IF Stored(emails, email_id)
          THEN /\ Acquire(t)
               /\ emails' = IF loc[t].email = <<>> THEN emails
                            ELSE DictSet(emails, loc[t].email[1])
               /\ SetThread(t, "save_snapshot", [loc[t] EXCEPT !.email = <<>>])
          ELSE /\ CanAcquire(t, QueueLock(t))
               /\ SetThread(t, "idle", [loc[t] EXCEPT !.ret = "True"])
               /\ UNCHANGED <<emails, instances>>
       /\ UNCHANGED <<diskEmails, cls, epoch>>

\* EmailStorage.delete: _execute_with_lock(_delete).  A thread that is
\* marking the message keeps the object it fetched.
ThreadDelete(t, email_id) ==
    \/ /\ pc[t] = "idle"
       /\ SetThread(t, "delete_enter",
                    [NoLocals EXCEPT !.op = "delete", !.inst = loc[t].inst, !.id = email_id])
       /\ UNCHANGED <<emails, diskEmails, instances, cls, epoch>>
    \/ /\ pc[t] = "delete_enter" /\ loc[t].id = email_id
       /\ ~Stored(emails, email_id)
       /\ CanAcquire(t, QueueLock(t))
       /\ SetThread(t, "idle", [loc[t] EXCEPT !.ret = "False"])
       /\ UNCHANGED <<emails, diskEmails, instances, cls, epoch>>
    \/ /\ pc[t] = "delete_enter" /\ loc[t].id = email_id
       /\ Stored(emails, email_id)
       /\ Acquire(t)
       /\ emails' = DictDel(emails, email_id)
       /\ pc' = [pc EXCEPT ![t] = "save_snapshot"]
       /\ loc' = [u \in Threads |->
                    IF /\ pc[u] \in {"mark_test", "mark_append", "update_enter"}
                       /\ loc[u].id = email_id
                       /\ loc[u].email = <<>>
                    THEN [loc[u] EXCEPT !.email = DictGet(emails, email_id)]
                    ELSE loc[u]]
       /\ UNCHANGED <<phase, quarantined, diskQuarantine, backups, ret>>
       /\ UNCHANGED <<diskEmails, cls, epoch>>

\* EmailStorage.get_by_id and get_all: a read inside _execute_with_lock
ThreadGet(t, email_id) ==
    /\ pc[t] = "idle"
    /\ CanAcquire(t, QueueLock(t))
    /\ SetThread(t, "idle",
                 [NoLocals EXCEPT !.op = IF email_id = None THEN "get_all" ELSE "get_by_id",
                                  !.inst = loc[t].inst, !.id = email_id,
                                  !.seen = IF email_id = None THEN emails
                                           ELSE DictGet(emails, email_id)])
    /\ UNCHANGED <<emails, diskEmails, instances, cls, epoch>>

(***************************************************************************)
(* SpecConcurrent: two threads on an initialized store that holds one      *)
(* message.  Each creates messages of its own id, marks the stored message *)
(* read or deleted under names that normalize to the same or to different  *)
(* names, and reads.                                                       *)
(***************************************************************************)
ConcurrentEmail(id) ==
    Email(id, << <<"a">> >>, <<"b">>, <<>>, <<>>, SpecTimestamp(id), None, <<>>, <<>>)

ConcurrentInit ==
    /\ phase = "ready"
    /\ emails = <<ConcurrentEmail("u1")>>
    /\ quarantined = JList(<<>>)
    /\ diskEmails = EmailsDocument(emails)
    /\ diskQuarantine = EmptyDocument
    /\ backups = <<>>
    /\ ret = NoRet
    /\ OneCaller

\* each thread creates the message of its own id; the names they mark with
\* normalize to the same name on different threads, or to different names
NextConcurrent ==
    \/ \E t \in Threads : ThreadCreate(t, ConcurrentEmail(IF t = "t1" THEN "u2" ELSE "u3"))
    \/ \E t \in Threads, field \in {"read_by", "deleted_by"} :
           \E v \in (IF t = "t1" THEN { <<" ", "A">>, <<"b">> } ELSE { <<"a">> }) :
               ThreadMark(t, "u1", v, field)
    \/ \E t \in Threads : ThreadSave(t)
    \/ \E t \in Threads, id \in {"u1", None} : ThreadGet(t, id)

SpecConcurrent == ConcurrentInit /\ [][NextConcurrent]_vars

(***************************************************************************)
(* C23: mutations are globally serialized.  When threads call create with  *)
(* different ids, every create that has returned left its message in the   *)
(* store (get_all() holds it), and whenever no thread is inside the lock   *)
(* the message document holds exactly the stored ids, in store order, with *)
(* every created message in full: no update is lost and no snapshot is     *)
(* written out of date.                                                    *)
(***************************************************************************)
C23_CreatesSerialized ==
    LET HasCreated(t) == pc[t] = "idle" /\ loc[t].op = "create"
        IdsOnDisk == [k \in 1..Len(diskEmails.coll.items) |-> diskEmails.coll.items[k].id.s]
    IN  /\ \A t \in Threads :
               HasCreated(t) => DictGet(emails, loc[t].id) = loc[t].email
        /\ instances[1].queue_lock = "free" =>
               /\ IdsOnDisk = [i \in 1..Len(emails) |-> emails[i].id]
               /\ \A t \in Threads :
                      HasCreated(t) =>
                          \E k \in 1..Len(diskEmails.coll.items) :
                              diskEmails.coll.items[k] = to_dict(loc[t].email[1])

\* both threads have returned from create; the store and the document hold
\* the message of each besides the one that was there
C23_Witness ==
    /\ \A t \in Threads : pc[t] = "idle" /\ loc[t].op = "create"
    /\ Len(emails) = 3
    /\ Len(diskEmails.coll.items) = 3

(***************************************************************************)
(* C24: a reader never observes a partial write.  Whatever get_by_id or    *)
(* get_all returns while mark_as_read / mark_as_deleted calls run on other *)
(* threads is what the message document holds: a name is seen in readBy /  *)
(* deletedBy only once the update has completed and the change is on disk. *)
(***************************************************************************)
C24_ReaderSeesOnlySavedChanges ==
    [][ \A t \in Threads :
            ( /\ pc[t] = "idle" /\ pc'[t] = "idle"
              /\ loc'[t] # loc[t]
              /\ loc'[t].op \in {"get_by_id", "get_all"} ) =>
                \A i \in 1..Len(loc'[t].seen) :
                    \E k \in 1..Len(diskEmails.coll.items) :
                        diskEmails.coll.items[k] = to_dict(loc'[t].seen[i])
      ]_vars

(***************************************************************************)
(* C25: readBy and deletedBy stay deduplicated under concurrency.  After   *)
(* any interleaving of mark_as_read / mark_as_deleted calls on the same    *)
(* message, with names that normalize to the same or to different names,   *)
(* each list holds each name once, and the name of every call that         *)
(* returned True is in its list.                                           *)
(***************************************************************************)
C25_MarksDeduplicated ==
    /\ \A i \in 1..Len(emails) :
           NoDuplicates(emails[i].read_by) /\ NoDuplicates(emails[i].deleted_by)
    /\ \A t \in Threads :
           (pc[t] = "idle" /\ loc[t].op = "mark" /\ loc[t].ret = "True") =>
               loc[t].name \in Range(MarkedNames(DictGet(emails, loc[t].id)[1], loc[t].field))

(***************************************************************************)
(* The singleton and the agent directory statement by statement            *)
(* (storage.py 56-117 and 719-750).                                        *)
(***************************************************************************)
\* a second test that finds no instance whatever cls._instance is
MustCreateAlways(instance) == TRUE

\* `if cls._instance is None` inside the lock of __new__
MustCreate(instance) == instance = 0

\* EmailStorage(data_dir): __new__, then __init__ on what it returned unless
\* that is None
ThreadConstruct(t, data_dir) ==
    \/ /\ pc[t] = "idle"
       /\ SetThread(t, "new_test",
                    [NoLocals EXCEPT !.op = "construct", !.inst = loc[t].inst,
                                     !.dir = data_dir, !.began = epoch.resets])
       /\ UNCHANGED <<emails, diskEmails, cls, instances, epoch>>
    \/ /\ pc[t] = "new_test" /\ loc[t].dir = data_dir
       /\ SetThread(t, IF cls.instance = 0 THEN "new_enter" ELSE "new_return", loc[t])
       /\ UNCHANGED <<emails, diskEmails, cls, instances, epoch>>
    \/ /\ pc[t] = "new_enter" /\ loc[t].dir = data_dir
       /\ LockFree(cls.lock)
       /\ cls' = [cls EXCEPT !.lock = t]
       /\ SetThread(t, "new_retest", loc[t])
       /\ UNCHANGED <<emails, diskEmails, instances, epoch>>
    \/ /\ pc[t] = "new_retest" /\ loc[t].dir = data_dir
       /\ IF MustCreate(cls.instance)
          THEN /\ instances' = Append(instances, RawInstance)
               /\ cls' = [cls EXCEPT !.instance = Len(instances) + 1, !.lock = "free"]
          ELSE /\ cls' = [cls EXCEPT !.lock = "free"]
               /\ UNCHANGED instances
       /\ SetThread(t, "new_return", loc[t])
       /\ UNCHANGED <<emails, diskEmails, epoch>>
    \/ /\ pc[t] = "new_return" /\ loc[t].dir = data_dir
       /\ IF cls.instance = 0
          THEN SetThread(t, "idle", [loc[t] EXCEPT !.inst = 0, !.ret = "None"])
          ELSE SetThread(t, "init_test", [loc[t] EXCEPT !.self = cls.instance])
       /\ UNCHANGED <<emails, diskEmails, cls, instances, epoch>>
    \/ /\ pc[t] = "init_test" /\ loc[t].dir = data_dir
       /\ IF cls.initialized
          THEN SetThread(t, "idle", [loc[t] EXCEPT !.inst = loc[t].self, !.ret = "instance"])
          ELSE SetThread(t, "init_enter", loc[t])
       /\ UNCHANGED <<emails, diskEmails, cls, instances, epoch>>
    \/ /\ pc[t] = "init_enter" /\ loc[t].dir = data_dir
       /\ LockFree(cls.lock)
       /\ cls' = [cls EXCEPT !.lock = t]
       /\ SetThread(t, "init_body", loc[t])
       /\ UNCHANGED <<emails, diskEmails, instances, epoch>>
    \/ /\ pc[t] = "init_body" /\ loc[t].dir = data_dir
       /\ IF cls.initialized
          THEN /\ cls' = [cls EXCEPT !.lock = "free"]
               /\ UNCHANGED instances
          ELSE /\ instances' = [instances EXCEPT ![loc[t].self] = InitializedInstance(data_dir)]
               /\ cls' = [cls EXCEPT !.initialized = TRUE, !.lock = "free"]
       /\ SetThread(t, "idle", [loc[t] EXCEPT !.inst = loc[t].self, !.ret = "instance"])
       /\ UNCHANGED <<emails, diskEmails, epoch>>

\* the body of reset_instance, all of it inside cls._lock (the instance's
\* _queue_lock is not taken); epoch records whether a call of another thread
\* was under way
ResetInstance(t) ==
    /\ LockFree(cls.lock)
    /\ instances' = IF cls.instance # 0
                    THEN [instances EXCEPT ![cls.instance].agent_registry = <<>>,
                                           ![cls.instance].registered_names = {}]
                    ELSE instances
    /\ cls' = [cls EXCEPT !.instance = 0, !.initialized = FALSE]
    /\ epoch' = [ resets |-> epoch.resets + 1,
                  overlapped |-> \/ epoch.overlapped
                                 \/ \E u \in Threads \ {t} : pc[u] # "idle" ]
    /\ SetThread(t, "idle", [NoLocals EXCEPT !.op = "reset", !.inst = loc[t].inst])
    /\ UNCHANGED <<emails, diskEmails>>

\* EmailStorage.reset_instance, called when cls._lock is free
ThreadReset(t) ==
    /\ pc[t] = "idle"
    /\ epoch.resets < MaxResets
    /\ ResetInstance(t)

\* EmailStorage.reset_instance with its wait for cls._lock
ThreadResetCall(t) ==
    \/ /\ pc[t] = "idle"
       /\ epoch.resets < MaxResets
       /\ SetThread(t, "reset_enter", [NoLocals EXCEPT !.op = "reset", !.inst = loc[t].inst])
       /\ UNCHANGED <<emails, diskEmails, cls, instances, epoch>>
    \/ /\ pc[t] = "reset_enter"
       /\ ResetInstance(t)

\* a test of the name as it was given, not of its normal form
NameTakenAsGiven(name, names) == name \in names

\* normalize_name(name) in self._registered_names
NameTaken(name, names) == normalize_name(name) \in names

\* self._agent_registry[normalized] = pid
RegistrySet(registry, name, pid) ==
    IF \E k \in 1..Len(registry) : registry[k].name = name
    THEN [k \in 1..Len(registry) |->
             IF registry[k].name = name THEN [name |-> name, pid |-> pid] ELSE registry[k]]
    ELSE Append(registry, [name |-> name, pid |-> pid])

\* EmailStorage.register_agent on the instance the thread holds; a handle
\* that is None or has no _queue_lock yet raises AttributeError
ThreadRegister(t, name, pid) ==
    \/ /\ pc[t] = "idle"
       /\ IF loc[t].inst = 0 \/ ~instances[loc[t].inst].ready
          THEN SetThread(t, "idle",
                         [NoLocals EXCEPT !.op = "register_agent", !.inst = loc[t].inst,
                                          !.name = name, !.pid = pid,
                                          !.began = epoch.resets, !.ret = "AttributeError"])
          ELSE SetThread(t, "register_enter",
                         [NoLocals EXCEPT !.op = "register_agent", !.inst = loc[t].inst,
                                          !.name = name, !.pid = pid,
                                          !.began = epoch.resets])
       /\ UNCHANGED <<emails, diskEmails, cls, instances, epoch>>
    \/ /\ pc[t] = "register_enter" /\ loc[t].name = name /\ loc[t].pid = pid
       /\ Acquire(t)
       /\ SetThread(t, "register_test", loc[t])
       /\ UNCHANGED <<emails, diskEmails, cls, epoch>>
    \/ /\ pc[t] = "register_test" /\ loc[t].name = name /\ loc[t].pid = pid
       /\ IF NameTaken(name, instances[loc[t].inst].registered_names)
          THEN /\ Release(t)
               /\ SetThread(t, "idle", [loc[t] EXCEPT !.ret = "ValueError"])
          ELSE /\ UNCHANGED instances
               /\ SetThread(t, "register_add", loc[t])
       /\ UNCHANGED <<emails, diskEmails, cls, epoch>>
    \/ /\ pc[t] = "register_add" /\ loc[t].name = name /\ loc[t].pid = pid
       /\ instances' = [instances EXCEPT ![loc[t].inst].registered_names =
                                             @ \cup {normalize_name(name)}]
       /\ SetThread(t, "register_set", loc[t])
       /\ UNCHANGED <<emails, diskEmails, cls, epoch>>
    \/ /\ pc[t] = "register_set" /\ loc[t].name = name /\ loc[t].pid = pid
       /\ instances' = [instances EXCEPT
                           ![loc[t].inst].agent_registry =
                               RegistrySet(@, normalize_name(name), pid),
                           ![loc[t].inst].queue_lock = "free"]
       /\ SetThread(t, "idle", [loc[t] EXCEPT !.ret = "None"])
       /\ UNCHANGED <<emails, diskEmails, cls, epoch>>

\* EmailStorage.is_agent_name_available, a read inside _execute_with_lock
ThreadIsAvailable(t, name) ==
    /\ pc[t] = "idle"
    /\ loc[t].inst # 0
    /\ instances[loc[t].inst].ready
    /\ CanAcquire(t, QueueLock(t))
    /\ SetThread(t, "idle",
                 [NoLocals EXCEPT
                     !.op = "is_agent_name_available", !.inst = loc[t].inst, !.name = name,
                     !.began = epoch.resets,
                     !.ret = IF NameTaken(name, instances[loc[t].inst].registered_names)
                             THEN "False" ELSE "True"])
    /\ UNCHANGED <<emails, diskEmails, cls, instances, epoch>>

(***************************************************************************)
(* SpecSingleton: two threads construct the store, each with its own data  *)
(* directory, and reset it; one of them registers an agent on the instance *)
(* it was given.                                                           *)
(***************************************************************************)
SingletonInit ==
    /\ phase = "constructed"
    /\ emails = <<>>
    /\ quarantined = JList(<<>>)
    /\ diskEmails = [EmptyDocument EXCEPT !.state = "absent"]
    /\ diskQuarantine = [EmptyDocument EXCEPT !.state = "absent"]
    /\ backups = <<>>
    /\ ret = NoRet
    /\ pc = [t \in Threads |-> "idle"]
    /\ loc = [t \in Threads |-> NoLocals]
    /\ cls = [instance |-> 0, initialized |-> FALSE, lock |-> "free"]
    /\ instances = <<>>
    /\ epoch = [resets |-> 0, overlapped |-> FALSE]

NextSingleton ==
    \/ \E t \in Threads : ThreadConstruct(t, IF t = "t1" THEN "d1" ELSE "d2")
    \/ \E t \in Threads : ThreadReset(t)
    \/ ThreadRegister("t1", <<"b">>, 1)

SpecSingleton == SingletonInit /\ [][NextSingleton]_vars

(***************************************************************************)
(* SpecRegistry: two threads on one constructed instance register agents   *)
(* under names of which two normalize to the same name, ask whether names  *)
(* are available, and reset the singleton.                                 *)
(***************************************************************************)
NextRegistry ==
    \/ \E t \in Threads :
           \E name \in (IF t = "t1" THEN { <<"A", " ">>, <<"b">> } ELSE { <<"a">> }) :
               ThreadRegister(t, name, IF t = "t1" THEN 1 ELSE 2)
    \/ \E t \in Threads, name \in { <<" ", "A">>, <<"b">> } : ThreadIsAvailable(t, name)
    \/ \E t \in Threads : ThreadReset(t)

SpecRegistry == ReadyInit /\ [][NextRegistry]_vars

(***************************************************************************)
(* What a step must keep for the store to be one instance between resets:  *)
(* no more instances than resets plus one; a constructor call begun since  *)
(* the last reset that has returned holds the current instance, fully      *)
(* initialized; an initialized instance stays initialized and keeps its    *)
(* data directory (the first construction wins); a reset leaves the agent  *)
(* registry and the names ever used empty, as they are in a newly          *)
(* initialized instance.                                                   *)
(***************************************************************************)
OneInstance ==
    /\ Len(instances') <= epoch'.resets + 1
    /\ \A t \in Threads :
           (pc'[t] = "idle" /\ loc'[t].op = "construct" /\ loc'[t].began = epoch'.resets) =>
               /\ loc'[t].inst # 0
               /\ loc'[t].inst = cls'.instance
               /\ instances'[loc'[t].inst].ready
               /\ instances'[loc'[t].inst].data_dir \in {"d1", "d2"}
    /\ \A i \in 1..Len(instances) :
           /\ instances[i].ready =>
                  /\ instances'[i].ready
                  /\ instances'[i].data_dir = instances[i].data_dir
           /\ (~instances[i].ready /\ instances'[i].ready) =>
                  /\ instances'[i].agent_registry = <<>>
                  /\ instances'[i].registered_names = {}
    /\ (cls.instance # 0 /\ cls'.instance = 0) =>
           /\ instances'[cls.instance].agent_registry = <<>>
           /\ instances'[cls.instance].registered_names = {}

(***************************************************************************)
(* C26: exactly one Store instance exists between resets.  Whatever the    *)
(* interleaving, every step keeps OneInstance: all constructor calls of a  *)
(* period between resets receive the same, fully initialized instance, the *)
(* directory of the first construction wins, and after a reset the agent   *)
(* registry and the names ever used are empty.                             *)
(***************************************************************************)
C26_OneInstanceBetweenResets == [][OneInstance]_vars

\* C26 where no reset has run during another call: every step keeps
\* OneInstance, and two returned constructor calls hold the same instance
\* exactly when they began in the same period
C26_OneInstanceWithoutOverlap ==
    [][ ~epoch'.overlapped =>
            /\ OneInstance
            /\ \A t, u \in Threads :
                   ( /\ pc'[t] = "idle" /\ loc'[t].op = "construct"
                     /\ pc'[u] = "idle" /\ loc'[u].op = "construct" ) =>
                       (loc'[t].inst = loc'[u].inst <=> loc'[t].began = loc'[u].began)
      ]_vars

\* after a reset both threads have constructed again: they hold the same
\* second instance, initialized with the directory of t2, whose __init__
\* ran the locked body first in that period
C26_Witness ==
    /\ epoch.resets = 1 /\ ~epoch.overlapped
    /\ \A t \in Threads : pc[t] = "idle" /\ loc[t].op = "construct" /\ loc[t].began = 1
    /\ loc["t1"].inst = 2 /\ loc["t2"].inst = 2
    /\ Len(instances) = 2
    /\ instances[2].ready /\ instances[2].data_dir = "d2"
    /\ instances[1].ready /\ instances[1].registered_names = {}

(***************************************************************************)
(* What a step must keep for a registered name never to be reused: while   *)
(* no reset runs, the names ever used only grow and the registry keeps its *)
(* entries and their pids; a registration that succeeds leaves its         *)
(* normalized name among the names and in the registry with its pid;       *)
(* register_agent fails, changing neither names nor registry, exactly when *)
(* the normalized name is among the names, and is_agent_name_available     *)
(* answers False exactly then; and of the registrations of one normalized  *)
(* name that began since the last reset, at most one has succeeded.        *)
(***************************************************************************)
NameKept ==
    LET Names(t) == instances[loc[t].inst].registered_names
        Done(t, op) == pc'[t] = "idle" /\ loc'[t].op = op
        Since(t) == loc'[t].began = epoch'.resets
    IN  /\ epoch' = epoch =>
               \A i \in 1..Len(instances) :
                   /\ instances[i].registered_names \subseteq instances'[i].registered_names
                   /\ IsPrefix(instances[i].agent_registry, instances'[i].agent_registry)
        /\ \A t \in Threads :
               /\ (pc[t] = "register_test" /\ pc'[t] = "register_add") =>
                      normalize_name(loc[t].name) \notin Names(t)
               /\ (pc[t] = "register_test" /\ pc'[t] = "idle") =>
                      /\ loc'[t].ret = "ValueError"
                      /\ normalize_name(loc[t].name) \in Names(t)
                      /\ \A i \in 1..Len(instances) :
                             /\ instances'[i].registered_names = instances[i].registered_names
                             /\ instances'[i].agent_registry = instances[i].agent_registry
               /\ (pc[t] = "register_set" /\ pc'[t] = "idle") =>
                      /\ loc'[t].ret = "None"
                      /\ normalize_name(loc[t].name) \in
                             instances'[loc[t].inst].registered_names
                      /\ [name |-> normalize_name(loc[t].name), pid |-> loc[t].pid] \in
                             Range(instances'[loc[t].inst].agent_registry)
               /\ (pc[t] = "idle" /\ loc'[t] # loc[t] /\ Done(t, "is_agent_name_available")) =>
                      (loc'[t].ret = "False" <=> normalize_name(loc'[t].name) \in Names(t))
        /\ \A t, u \in Threads :
               ( /\ t # u
                 /\ Done(t, "register_agent") /\ Done(u, "register_agent")
                 /\ Since(t) /\ Since(u)
                 /\ loc'[t].inst = loc'[u].inst
                 /\ normalize_name(loc'[t].name) = normalize_name(loc'[u].name) ) =>
                   ~(loc'[t].ret = "None" /\ loc'[u].ret = "None")

(***************************************************************************)
(* C27: a registered agent name can never be reused.  Whatever the         *)
(* interleaving, every step keeps NameKept: once register_agent(n) has     *)
(* succeeded, until a reset, n' is not available and register_agent(n')    *)
(* fails for every n' with the same normal form; a failed registration     *)
(* leaves the registry unchanged; of two concurrent registrations of one   *)
(* name exactly one succeeds.                                              *)
(***************************************************************************)
C27_NameNeverReused == [][NameKept]_vars

\* C27 where no reset has run during another call: every step keeps
\* NameKept
C27_NameNeverReusedWithoutOverlap == [][~epoch'.overlapped => NameKept]_vars

\* t1 has registered "A " with pid 1 and t2's registration of "a" has
\* failed: the name is stored once, normalized, with t1's pid
C27_Witness ==
    /\ \A t \in Threads : pc[t] = "idle" /\ loc[t].op = "register_agent"
                          /\ loc[t].began = epoch.resets
    /\ loc["t1"].name = <<"A", " ">> /\ loc["t1"].ret = "None"
    /\ loc["t2"].name = <<"a">> /\ loc["t2"].ret = "ValueError"
    /\ instances[1].registered_names = { <<"a">> }
    /\ instances[1].agent_registry = << [name |-> <<"a">>, pid |-> 1] >>

(***************************************************************************)
(* SpecReopen: initialize() on one of four documents, messages created     *)
(* with names, subject and content as a caller gives them (the constructor *)
(* normalizes the names and leaves subject and content alone), marks, and  *)
(* restarts on the files the process left.                                 *)
(***************************************************************************)
ReopenEmails ==
    { Email(x[1], << <<"A", " ">>, <<"a">>, <<"b">> >>, <<"B">>, x[2], x[2], <<"1", "Z">>,
            IF x[1] = "u1" THEN None ELSE "u1",
            IF x[1] = "u1" THEN <<>> ELSE << <<"B">>, <<"b", " ">> >>, <<>>) :
        x \in { <<"u1", <<"c">> >>, <<"u1", <<" ", "c">> >>, <<"u2", <<"c", " ">> >>,
                <<"bad", <<"c">> >> } }

NextReopen ==
    \/ Initialize
    \/ quarantined.t = "list" /\ Len(quarantined.items) < MaxQuarantine /\ Reopen
    \/ \E e \in ReopenEmails : Create(e)
    \/ \E id \in {"u1", "u2"} : MarkAsDeleted(id, <<" ", "A">>)

SpecReopen == StoreInit /\ [][NextReopen]_vars

\* a message that satisfies the data model: identifier and timestamp well
\* formed, names normalized and not blank, no name twice
ValidMessage(m) ==
    /\ validate_uuid(m.id)
    /\ validate_timestamp(JStr(m.timestamp))
    /\ m = Email(m.id, m.to, m.from_, m.subject, m.content, m.timestamp,
                 m.is_response_to, m.read_by, m.deleted_by)
    /\ \A k \in 1..Len(m.read_by) : m.read_by[k] # <<>>
    /\ \A k \in 1..Len(m.deleted_by) : m.deleted_by[k] # <<>>

\* the restart step of a running store
IsReopen == phase = "ready" /\ ret'.op = "initialize"

\* the restart quarantined no record with the id of m
NotQuarantined(m) ==
    /\ quarantined'.t = "list"
    /\ \A k \in 1..Len(quarantined'.items) :
           k > Len(quarantined.items) => quarantined'.items[k].original.id # JStr(m.id)

(***************************************************************************)
(* C31: persist then reload gives the message back.  Every valid message   *)
(* the store holds (created, hence already normalized: names lowercase and *)
(* trimmed, to / readBy / deletedBy without duplicates in order) is live   *)
(* and equal after a restart on the same files, and the restart adds no    *)
(* quarantine entry for it.                                                *)
(***************************************************************************)
C31_RoundTripEqual ==
    [][ IsReopen =>
            \A i \in 1..Len(emails) :
                ValidMessage(emails[i]) =>
                    /\ phase' = "ready"
                    /\ DictGet(emails', emails[i].id) = <<emails[i]>>
                    /\ NotQuarantined(emails[i])
      ]_vars

\* C31 with subject and content compared after trimming: the restart gives
\* the message back with strip() applied to both
C31_RoundTripEqualUpToTrim ==
    [][ IsReopen =>
            \A i \in 1..Len(emails) :
                ValidMessage(emails[i]) =>
                    /\ phase' = "ready"
                    /\ DictGet(emails', emails[i].id) =
                           << [emails[i] EXCEPT !.subject = Strip(@), !.content = Strip(@)] >>
                    /\ NotQuarantined(emails[i])
      ]_vars

(***************************************************************************)
(* SpecRestart: initialize() on the files found in the data directory, and *)
(* restarts on the files it left.                                          *)
(***************************************************************************)
NextRestart ==
    \/ Initialize
    \/ Reopen

SpecRestart == ConstructedInit /\ [][NextRestart]_vars

(***************************************************************************)
(* C38: startup recovery is idempotent.  A restart on the files left by a  *)
(* successful initialize(), with no call in between, succeeds with the     *)
(* same live messages, the same quarantine (no entry appended), no backup  *)
(* file created and both documents unchanged.                              *)
(***************************************************************************)
C38_RestartIdempotent ==
    [][ (IsReopen /\ ret.op = "initialize" /\ ret.exit = "returned") =>
            /\ phase' = "ready"
            /\ ret'.exit = "returned"
            /\ emails' = emails
            /\ quarantined' = quarantined
            /\ backups' = backups
            /\ diskEmails' = diskEmails
            /\ diskQuarantine' = diskQuarantine
      ]_vars

\* initialize() has repaired one record, quarantined two, replaced a
\* quarantine document of an unsupported version by a backup; a restart
\* finds the files it left
C38_Witness ==
    /\ phase = "ready" /\ ret.op = "initialize" /\ ret.exit = "returned"
    /\ Len(emails) = 1 /\ emails[1].subject = <<"c">>
    /\ quarantined.t = "list" /\ Len(quarantined.items) = 2
    /\ Len(backups) = 1
    /\ diskEmails = EmailsDocument(emails)
    /\ diskQuarantine = QuarantineDocument(quarantined)

(***************************************************************************)
(* C32: the inbox of a viewer.  get_inbox_for_viewer(v) returns exactly    *)
(* the stored messages that have the normalized v among their recipients   *)
(* or as their sender and not in deletedBy, each once, newest first; and   *)
(* every variant of v in letter case or surrounding blanks gives the same  *)
(* list.                                                                   *)
(***************************************************************************)
C32_InboxExact ==
    ret.op = "get_inbox_for_viewer" =>
        LET v == normalize_name(ret.viewer)
            L == ret.list
            Visible(m) == (v \in Range(m.to) \/ v = m.from_) /\ v \notin Range(m.deleted_by)
            Variants == { w \in SeqsUpTo({" ", "A", "a", "B", "b"}, 3) : normalize_name(w) = v }
        IN  /\ \A i \in 1..Len(emails) :
                   Visible(emails[i]) <=> \E k \in 1..Len(L) : L[k] = emails[i]
            /\ \A k \in 1..Len(L) : L[k] \in Range(emails)
            /\ \A j, k \in 1..Len(L) : j # k => L[j].id # L[k].id
            /\ \A j, k \in 1..Len(L) : j < k => ~StrLess(L[j].timestamp, L[k].timestamp)
            /\ ret.viewer \in Variants
            /\ \A w \in Variants : get_inbox_for_viewer(emails, w) = L

\* the inbox asked for as " A": two messages are stored, the older one
\* first; the viewer has deleted one and sees the other
C32_Witness ==
    /\ ret.op = "get_inbox_for_viewer" /\ ret.viewer = <<" ", "A">>
    /\ Len(emails) = 2
    /\ \A i \in 1..2 : <<"a">> \in Range(emails[i].to)
    /\ <<"a">> \in Range(emails[1].deleted_by)
    /\ ret.list = <<emails[2]>>

(***************************************************************************)
(* Pagination (services.py 228-397).                                       *)
(***************************************************************************)
PAGE_SIZE_INBOX == 10

\* items[start_idx:end_idx] for 0 <= start_idx <= end_idx
Slice(items, start_idx, end_idx) ==
    SubSeq(items, start_idx + 1, IF end_idx < Len(items) THEN end_idx ELSE Len(items))

\* a page count rounded down
TotalPagesFloor(total_items, per_page) == total_items \div per_page

\* (total_items + per_page - 1) // per_page
TotalPages(total_items, per_page) == (total_items + per_page - 1) \div per_page

\* a slice that starts one item late
PageSliceOffByOne(items, page, per_page) ==
    Slice(items, (page - 1) * per_page + 1, (page - 1) * per_page + 1 + per_page)

\* start_idx, end_idx and items[start_idx:end_idx]
PageSlice(items, page, per_page) ==
    Slice(items, (page - 1) * per_page, (page - 1) * per_page + per_page)

\* paginate: [exit, data, pagination]
paginate(items, page, per_page, allow_empty) ==
    LET total_items == Len(items)
        total_pages == TotalPages(total_items, per_page)
        raised == [exit |-> "PaginationError", data |-> <<>>, pagination |-> <<>>]
    IN  IF total_items = 0
        THEN IF ~allow_empty /\ page # 1 THEN raised
             ELSE [ exit |-> "returned", data |-> <<>>,
                    pagination |-> << [ page |-> 1, per_page |-> per_page, total_items |-> 0,
                                        total_pages |-> 1, has_next |-> FALSE,
                                        has_prev |-> FALSE ] >> ]
        ELSE IF page > total_pages THEN raised
        ELSE [ exit |-> "returned", data |-> PageSlice(items, page, per_page),
               pagination |-> << [ page |-> page, per_page |-> per_page,
                                   total_items |-> total_items, total_pages |-> total_pages,
                                   has_next |-> page < total_pages,
                                   has_prev |-> page > 1 ] >> ]

\* paginate_inbox, for an int page: validate_page_number, paginate, to_dict
paginate_inbox(inbox, page) ==
    IF page < 1 THEN [exit |-> "PaginationError", data |-> <<>>, pagination |-> <<>>]
    ELSE LET result == paginate(inbox, page, PAGE_SIZE_INBOX, TRUE)
         IN  [result EXCEPT !.data = [i \in 1..Len(result.data) |-> to_dict(result.data[i])]]

\* paginate(items, page, per_page) on the inbox of the viewer
Paginate(viewer, page, per_page) ==
    /\ phase = "ready"
    /\ LET items == get_inbox_for_viewer(emails, viewer)
           result == paginate(items, page, per_page, TRUE)
       IN  ret' = [Ret("paginate", "") EXCEPT
                     !.viewer = viewer,
                     !.args = << [items |-> items, page |-> page, per_page |-> per_page] >>,
                     !.exit = result.exit, !.list = result.data,
                     !.pagination = result.pagination]
    /\ UNCHANGED <<phase, emails, quarantined, diskEmails, diskQuarantine, backups>>
    /\ UNCHANGED threadVars

\* the inbox endpoint down to paginate_inbox
InboxPage(viewer, page) ==
    /\ phase = "ready"
    /\ LET inbox == get_inbox_for_viewer(emails, viewer)
           result == paginate_inbox(inbox, page)
       IN  ret' = [Ret("paginate_inbox", "") EXCEPT
                     !.viewer = viewer,
                     !.args = << [items |-> inbox, page |-> page,
                                  per_page |-> PAGE_SIZE_INBOX] >>,
                     !.exit = result.exit, !.list = result.data,
                     !.pagination = result.pagination]
    /\ UNCHANGED <<phase, emails, quarantined, diskEmails, diskQuarantine, backups>>
    /\ UNCHANGED threadVars

(***************************************************************************)
(* SpecPages: a store of up to MaxItems messages, all addressed to "a",    *)
(* written one after the other (the oldest is stored first), and the pages *)
(* of the inbox of "a".                                                    *)
(***************************************************************************)
PageIds ==
    << "m01", "m02", "m03", "m04", "m05", "m06", "m07", "m08", "m09", "m10",
       "m11", "m12", "m13", "m14", "m15", "m16", "m17", "m18", "m19", "m20",
       "m21", "m22", "m23", "m24", "m25", "m26", "m27" >>

\* the i-th instant, three digits wide
PageTimestamp(i) ==
    LET d == <<"1", "2", "3">>
    IN  << d[((i - 1) \div 9) + 1], d[(((i - 1) \div 3) % 3) + 1], d[((i - 1) % 3) + 1], "Z" >>

PageStore(n) ==
    [ i \in 1..n |->
        Email(PageIds[i], << <<"a">> >>, <<"b">>, <<"c">>, <<>>, PageTimestamp(i),
              None, <<>>, <<>>) ]

PagesInit ==
    /\ phase = "ready"
    /\ emails \in { PageStore(n) : n \in 0..MaxItems }
    /\ quarantined = JList(<<>>)
    /\ diskEmails = EmailsDocument(emails)
    /\ diskQuarantine = EmptyDocument
    /\ backups = <<>>
    /\ ret = NoRet
    /\ OneCaller

NextPages ==
    \/ \E page \in 1..MaxPage, per_page \in 1..MaxPerPage : Paginate(<<"A">>, page, per_page)
    \/ \E page \in 1..MaxPage : InboxPage(<<"A">>, page)

SpecPages == PagesInit /\ [][NextPages]_vars

(***************************************************************************)
(* C33: paginate(items, page, per_page) against its reference definition,  *)
(* for page >= 1 and per_page >= 1.  An empty list gives page 1 with empty *)
(* data, total_items 0, total_pages 1 and neither has_next nor has_prev,   *)
(* whatever the page asked for.  A list of count > 0 items has             *)
(* total_pages = ceil(count / per_page); a page beyond it is an error;     *)
(* otherwise data is items[(page-1)*per_page : page*per_page],             *)
(* has_next = page < total_pages and has_prev = page > 1.                  *)
(***************************************************************************)
C33_PaginateReference ==
    ret.op = "paginate" =>
        LET items == ret.args[1].items
            page == ret.args[1].page
            per_page == ret.args[1].per_page
            count == Len(items)
            ceil == CHOOSE c \in 0..count : c * per_page >= count /\ (c - 1) * per_page < count
            first == (page - 1) * per_page
            last == IF page * per_page < count THEN page * per_page ELSE count
        IN  /\ page >= 1 /\ per_page >= 1
            /\ IF count = 0
               THEN /\ ret.exit = "returned"
                    /\ ret.list = <<>>
                    /\ ret.pagination =
                           << [ page |-> 1, per_page |-> per_page, total_items |-> 0,
                                total_pages |-> 1, has_next |-> FALSE, has_prev |-> FALSE ] >>
               ELSE IF page > ceil
               THEN ret.exit = "PaginationError"
               ELSE /\ ret.exit = "returned"
                    /\ ret.list = [i \in 1..(last - first) |-> items[first + i]]
                    /\ ret.pagination =
                           << [ page |-> page, per_page |-> per_page, total_items |-> count,
                                total_pages |-> ceil, has_next |-> page < ceil,
                                has_prev |-> page > 1 ] >>

\* the last page of seven items by three: one item, a page before it and
\* none after
C33_Witness ==
    /\ ret.op = "paginate" /\ ret.exit = "returned"
    /\ Len(ret.args[1].items) = 7 /\ ret.args[1].page = 3 /\ ret.args[1].per_page = 3
    /\ ret.list = <<ret.args[1].items[7]>>
    /\ ret.pagination[1].total_pages = 3
    /\ ~ret.pagination[1].has_next /\ ret.pagination[1].has_prev

RECURSIVE PagesFrom(_, _, _, _)
\* the data of the pages page..total_pages, one after the other
PagesFrom(items, page, per_page, total_pages) ==
    IF page > total_pages THEN <<>>
    ELSE paginate(items, page, per_page, TRUE).data
             \o PagesFrom(items, page + 1, per_page, total_pages)

(***************************************************************************)
(* C34: the pages of a non-empty list partition it in order.  For          *)
(* page = 1..total_pages every page is returned non-empty with at most     *)
(* per_page items, the pages put together are the list, and the page after *)
(* the last is an error.  With 25 messages in the inbox, pages of 10: the  *)
(* first page holds the 10 newest, the second the next 10, the third the 5 *)
(* oldest, and page 4 is an error.                                         *)
(***************************************************************************)
C34_PagesPartition ==
    /\ (ret.op \in {"paginate", "paginate_inbox"} /\ ret.args[1].items # <<>>) =>
           LET items == ret.args[1].items
               per_page == ret.args[1].per_page
               total_pages == paginate(items, 1, per_page, TRUE).pagination[1].total_pages
               Page(q) == paginate(items, q, per_page, TRUE)
           IN  /\ \A q \in 1..total_pages :
                      /\ Page(q).exit = "returned"
                      /\ Page(q).data # <<>>
                      /\ Len(Page(q).data) <= per_page
                      /\ Page(q).pagination[1].total_pages = total_pages
               /\ PagesFrom(items, 1, per_page, total_pages) = items
               /\ Page(total_pages + 1).exit = "PaginationError"
    /\ (ret.op = "paginate_inbox" /\ Len(emails) = 25) =>
           LET page == ret.args[1].page
               Newer(m) == Cardinality({i \in 1..Len(emails) :
                                           StrLess(m.timestamp, emails[i].timestamp)})
               Held(lo, hi) ==
                   /\ ret.exit = "returned"
                   /\ Len(ret.list) = hi - lo + 1
                   /\ \A k \in 1..Len(ret.list) :
                          \E i \in 1..Len(emails) :
                              /\ ret.list[k] = to_dict(emails[i])
                              /\ Newer(emails[i]) = lo + k - 2
           IN  CASE page = 1 -> Held(1, 10)
                 [] page = 2 -> Held(11, 20)
                 [] page = 3 -> Held(21, 25)
                 [] OTHER -> ret.exit = "PaginationError"

\* page 3 of the inbox of 25: the five oldest messages, the oldest last
C34_Witness ==
    /\ ret.op = "paginate_inbox" /\ ret.exit = "returned"
    /\ Len(emails) = 25 /\ ret.args[1].page = 3
    /\ Len(ret.list) = 5
    /\ ret.list[5] = to_dict(emails[1])
    /\ ret.pagination[1].total_pages = 3 /\ ~ret.pagination[1].has_next

(***************************************************************************)
(* SpecMarks: a store of two messages on which callers only mark messages  *)
(* read or deleted and read their inbox.  The viewer names include         *)
(* spellings of the same name; "u3" is not stored.                         *)
(***************************************************************************)
MarkIds == {"u1", "u2", "u3"}

MarkViewers == { <<" ", "A">>, <<"a">>, <<"B">> }

\* the store at the start: a message and a reply to it, as the send
\* endpoint leaves them (the sender has read its own message)
MarkStore ==
    << Email("u1", << <<"a">>, <<"b">> >>, <<"b">>, <<"s">>, <<"c">>, <<"1", "Z">>,
             None, << <<"b">> >>, <<>>),
       Email("u2", << <<"b">> >>, <<"a">>, <<"R">>, <<"c">>, <<"2", "Z">>,
             "u1", << <<"a">> >>, <<>>) >>

MarksInit ==
    /\ phase = "ready"
    /\ emails = MarkStore
    /\ quarantined = JList(<<>>)
    /\ diskEmails = EmailsDocument(emails)
    /\ diskQuarantine = EmptyDocument
    /\ backups = <<>>
    /\ ret = NoRet
    /\ OneCaller

NextMarks ==
    \/ \E id \in MarkIds, v \in MarkViewers : MarkAsRead(id, v)
    \/ \E id \in MarkIds, v \in MarkViewers : MarkAsDeleted(id, v)
    \/ \E v \in MarkViewers : GetInbox(v)

SpecMarks == MarksInit /\ [][NextMarks]_vars

(***************************************************************************)
(* C37: under mark_as_read and mark_as_deleted alone readBy and deletedBy  *)
(* only grow.  In every step the store keeps its messages in place; the    *)
(* readBy and the deletedBy of each message before the step head the ones  *)
(* after it (no name leaves, the names keep their order); mark_as_read     *)
(* changes nothing but the readBy of its message and mark_as_deleted       *)
(* nothing but the deletedBy of its message; and a message that has a      *)
(* viewer in deletedBy is not in that viewer's inbox after the step.       *)
(***************************************************************************)
C37_MarksOnlyGrow ==
    [][ /\ Len(emails') = Len(emails)
        /\ \A i \in 1..Len(emails) :
              LET m == emails[i]
                  n == emails'[i]
              IN  /\ IsPrefix(m.read_by, n.read_by)
                  /\ IsPrefix(m.deleted_by, n.deleted_by)
                  /\ [n EXCEPT !.read_by = m.read_by, !.deleted_by = m.deleted_by] = m
                  /\ n.id # ret'.id => n = m
                  /\ ret'.op # "mark_as_read" => n.read_by = m.read_by
                  /\ ret'.op # "mark_as_deleted" => n.deleted_by = m.deleted_by
                  /\ \A v \in Range(m.deleted_by) :
                        /\ m.id \notin IdsOf(get_inbox_for_viewer(emails', v))
                        /\ (ret'.op = "get_inbox_for_viewer"
                                /\ normalize_name(ret'.viewer) = v)
                              => m.id \notin IdsOf(ret'.list)
      ]_vars

\* both names have read and deleted the first message, in different orders,
\* and the inbox just returned to "a" holds the reply alone
C37_Witness ==
    /\ ret.op = "get_inbox_for_viewer"
    /\ normalize_name(ret.viewer) = <<"a">>
    /\ emails[1].read_by = << <<"b">>, <<"a">> >>
    /\ emails[1].deleted_by = << <<"a">>, <<"b">> >>
    /\ "u1" \notin IdsOf(ret.list)
    /\ emails[2].deleted_by = <<>>

(***************************************************************************)
(* SpecDelete: two threads on an initialized store that holds one message. *)
(* Each marks the message read or deleted and hard-deletes it; a call for  *)
(* an id that is gone finds nothing.                                       *)
(***************************************************************************)
NextDelete ==
    \/ \E t \in Threads, field \in {"read_by", "deleted_by"} :
           \E v \in (IF t = "t1" THEN { <<" ", "A">> } ELSE { <<"b">> }) :
               ThreadMark(t, "u1", v, field)
    \/ \E t \in Threads : ThreadDelete(t, "u1")
    \/ \E t \in Threads : ThreadSave(t)
    \/ \E t \in Threads : ThreadGet(t, "u1")

SpecDelete == ConcurrentInit /\ [][NextDelete]_vars

\* the thread returns from a mark call in this step
MarkReturns(t) == pc[t] # "idle" /\ pc'[t] = "idle" /\ loc'[t].op = "mark"

\* the name is in the list of the field, in the stored message and in its
\* record in the message document
Recorded(store, disk, id, field, name) ==
    /\ Stored(store, id)
    /\ name \in Range(MarkedNames(DictGet(store, id)[1], field))
    /\ \E k \in 1..Len(disk.coll.items) :
          /\ disk.coll.items[k].id = JStr(id)
          /\ JStr(name) \in Range(IF field = "read_by"
                                  THEN disk.coll.items[k].readBy.items
                                  ELSE disk.coll.items[k].deletedBy.items)

(***************************************************************************)
(* C35: mark_as_read / mark_as_deleted return True only if the message     *)
(* exists and was marked.  Whatever a concurrent delete of the same id     *)
(* does, a call that returns True leaves the viewer in readBy / deletedBy  *)
(* of a message that is in the store and in the message document, and a    *)
(* call whose message is gone when it comes to its update returns False.   *)
(***************************************************************************)
C35_TrueOnlyIfMarked ==
    [][ \A t \in Threads :
            MarkReturns(t) =>
                /\ loc'[t].ret = "True" =>
                       Recorded(emails', diskEmails', loc'[t].id, loc'[t].field, loc'[t].name)
                /\ (pc[t] = "update_enter" /\ ~Stored(emails, loc[t].id)) =>
                       loc'[t].ret = "False"
      ]_vars

(***************************************************************************)
(* What holds of the return value: a mark call returns False exactly when  *)
(* get_by_id found no message, and a call that returns True after its      *)
(* update found the message leaves the viewer recorded in the store and in *)
(* the message document.                                                   *)
(***************************************************************************)
C35_TrueIfFetched ==
    [][ \A t \in Threads :
            MarkReturns(t) =>
                /\ loc'[t].ret = "False" <=> pc[t] = "mark_get"
                /\ (loc'[t].ret = "True" /\ pc[t] = "leave") =>
                       Recorded(emails', diskEmails', loc'[t].id, loc'[t].field, loc'[t].name)
      ]_vars

\* a mark call has returned True and its message is neither in the store
\* nor in the message document
C35_Witness ==
    \E t \in Threads :
        /\ pc[t] = "idle" /\ loc[t].op = "mark" /\ loc[t].ret = "True"
        /\ emails = <<>>
        /\ diskEmails.coll.items = <<>>
        /\ \E u \in Threads \ {t} : loc[u].op = "delete" /\ loc[u].ret = "True"

(***************************************************************************)
(* POST /mail (app.py send_email): the body checks, the expansion of       *)
(* "everyone", the parent check, the "Re: " prefix, the Email with a new   *)
(* id and the time of the call, the sender marked as reader, create.       *)
(***************************************************************************)
Everyone == <<"e", "v", "e", "r", "y", "o", "n", "e">>

RECURSIVE SortNames(_)
\* sorted(names)
SortNames(names) ==
    IF names = {} THEN <<>>
    ELSE LET least == CHOOSE x \in names : \A y \in names \ {x} : StrLess(x, y)
         IN  <<least>> \o SortNames(names \ {least})

\* services.get_all_known_agents: the keys of the agent registry, sorted
get_all_known_agents(registry) ==
    SortNames({registry[k].name : k \in 1..Len(registry)})

RECURSIVE DedupeFrom(_, _)
\* [x for x in expanded if not (x in seen or seen.add(x))]
DedupeFrom(names, acc) ==
    IF names = <<>> THEN acc
    ELSE IF Head(names) \in Range(acc) THEN DedupeFrom(Tail(names), acc)
    ELSE DedupeFrom(Tail(names), Append(acc, Head(names)))

\* the recipients after the expansion of "everyone"
ExpandEveryone(to, from_, registry) ==
    IF \E i \in 1..Len(to) : Lower(to[i]) = Everyone
    THEN LET NotEveryone(name) == Lower(name) # Everyone
             NotSender(agent) == agent # Lower(from_)
         IN  DedupeFrom(SelectSeq(to, NotEveryone)
                            \o SelectSeq(get_all_known_agents(registry), NotSender), <<>>)
    ELSE to

\* validate_email_body on a body of the right types: "" when it passes
ValidateEmailBody(data) ==
    IF data.to = <<>> \/ \E i \in 1..Len(data.to) : Strip(data.to[i]) = <<>>
    THEN "INVALID_FIELD"
    ELSE IF Strip(data.from) = <<>> THEN "INVALID_FIELD"
    ELSE IF data.isResponseTo # None /\ ~validate_uuid(data.isResponseTo) THEN "INVALID_UUID"
    ELSE ""

\* subject.lower().startswith('re:')
StartsWithRe(subject) ==
    Len(subject) >= 3 /\ Lower(SubSeq(subject, 1, 3)) = <<"r", "e", ":">>

\* the parent check of a send that stores the reply whatever get_by_id found
ParentMissingIgnored(store, is_response_to) == FALSE

\* `if is_response_to:` ... `if parent is None`
ParentMissing(store, is_response_to) ==
    is_response_to # None /\ DictGet(store, is_response_to) = <<>>

\* send_email on a parsed body; id and timestamp are what generate_uuid and
\* generate_timestamp give the new Email.  [exit, email]
send_email(store, registry, data, id, timestamp) ==
    LET failed(code) == [exit |-> code, email |-> <<>>]
        to == ExpandEveryone(data.to, data.from, registry)
        subject == IF data.isResponseTo # None /\ ~StartsWithRe(data.subject)
                   THEN <<"R", "e", ":", " ">> \o data.subject
                   ELSE data.subject
    IN  IF ValidateEmailBody(data) # "" THEN failed(ValidateEmailBody(data))
        ELSE IF to = <<>> THEN failed("INVALID_FIELD")
        ELSE IF ParentMissing(store, data.isResponseTo) THEN failed("PARENT_NOT_FOUND")
        ELSE IF ~EmailPostInitOk(to, data.from, data.isResponseTo) THEN failed("ValueError")
        ELSE [ exit |-> "201",
               email |-> << mark_read_by(Email(id, to, data.from, subject, data.content,
                                               timestamp, data.isResponseTo, <<>>, <<>>),
                                         data.from) >> ]

\* a request to POST /mail; the id is any that no stored message has
Send(data) ==
    /\ phase = "ready"
    /\ Len(emails) < MaxSent
    /\ \E id \in UUIDs \ StoredIds(emails) :
          LET r == send_email(emails, instances[1].agent_registry, data, id, <<"1", "Z">>)
          IN  /\ ret' = [Ret("send_email", IF r.exit = "201" THEN id ELSE "") EXCEPT
                           !.found = (r.exit = "201"), !.exit = r.exit,
                           !.email = r.email, !.args = <<data>>]
              /\ IF r.exit = "201"
                 THEN /\ emails' = DictSet(emails, r.email[1])
                      /\ diskEmails' = EmailsDocument(emails')
                 ELSE UNCHANGED <<emails, diskEmails>>
    /\ UNCHANGED <<phase, quarantined, diskQuarantine, backups>>
    /\ UNCHANGED threadVars

(***************************************************************************)
(* SpecSend: a store that starts empty and receives messages through the   *)
(* send endpoint only; callers mark messages deleted for themselves and    *)
(* walk to thread roots.  Two agents are registered or none.               *)
(***************************************************************************)
\* a new message, and replies to each id, to an id nobody has and to a
\* string that is no id; "everyone" with a recipient and alone
SendBodies ==
    { [to |-> x[1], from |-> <<"B">>, subject |-> x[2], content |-> <<"c">>,
       isResponseTo |-> x[3]] :
        x \in { y \in { << <<"E", "v", "e", "r", "y", "o", "n", "e">>, <<"A">> >>,
                         <<Everyone>> }
                           \X { <<"s">>, <<"R", "E", ":">> }
                           \X (UUIDs \cup {None, "bad"}) :
                    y[3] = None => y[2] = <<"s">> } }

SendInit ==
    /\ phase = "ready"
    /\ emails = <<>>
    /\ quarantined = JList(<<>>)
    /\ diskEmails = EmptyDocument
    /\ diskQuarantine = EmptyDocument
    /\ backups = <<>>
    /\ ret = NoRet
    /\ pc = [t \in Threads |-> "idle"]
    /\ loc = [t \in Threads |-> [NoLocals EXCEPT !.inst = 1]]
    /\ cls = [instance |-> 1, initialized |-> TRUE, lock |-> "free"]
    /\ \E registry \in { <<>>, RegistrySet(RegistrySet(<<>>, <<"b">>, 1), <<"a">>, 2) } :
          instances = << [InitializedInstance("data") EXCEPT
                             !.agent_registry = registry,
                             !.registered_names = {registry[k].name : k \in 1..Len(registry)}] >>
    /\ epoch = [resets |-> 0, overlapped |-> FALSE]

NextSend ==
    \/ \E data \in SendBodies : Send(data)
    \/ \E id \in {"u1"} : MarkAsDeleted(id, <<"a">>)
    \/ \E id \in UUIDs : FindThreadRoot(id)

SpecSend == SendInit /\ [][NextSend]_vars

(***************************************************************************)
(* C36: when messages enter the store only through the send endpoint (new  *)
(* id; a reply whose parent is not stored at that moment is rejected with  *)
(* PARENT_NOT_FOUND and nothing is stored) and no message is hard-deleted, *)
(* the parent graph is acyclic and has no orphan reference in every state, *)
(* and find_thread_root never leaves by its cycle exit or its orphan exit. *)
(***************************************************************************)
C36_SentGraphIsForest ==
    /\ Acyclic(emails)
    /\ NoOrphan(emails)
    /\ ret.op = "find_thread_root" => ret.exit \in {"absent", "root"}
    /\ ret.op = "send_email" =>
          /\ (ret.exit = "PARENT_NOT_FOUND" <=>
                 (ValidateEmailBody(ret.args[1]) = ""
                      /\ ExpandEveryone(ret.args[1].to, ret.args[1].from,
                                        instances[1].agent_registry) # <<>>
                      /\ ret.args[1].isResponseTo # None
                      /\ ~Stored(emails, ret.args[1].isResponseTo)))
          /\ ret.exit = "201" =>
                 /\ ret.email[1].is_response_to = ret.args[1].isResponseTo
                 /\ DictGet(emails, ret.id) = ret.email

\* a walk from a reply reached the message it replies to, which the
\* recipient has soft-deleted, and stopped there as the root
C36_Witness ==
    /\ ret.op = "find_thread_root"
    /\ ret.exit = "root"
    /\ ret.steps = 1
    /\ Len(emails) = MaxSent
    /\ \E i \in 1..Len(emails) : <<"a">> \in Range(emails[i].deleted_by)

(***************************************************************************)
(* Calls that wait: add_to_quarantine statement by statement, and a store  *)
(* call on a handle that is None or has no _queue_lock.                    *)
(***************************************************************************)
\* the thread holds an instance that __init__ has been through
Usable(t) == loc[t].inst # 0 /\ instances[loc[t].inst].ready

\* EmailStorage.add_to_quarantine: _execute_with_lock(_add); _add appends
\* the entry and calls _save_quarantine, which enters _execute_with_lock
\* again for the write
ThreadQuarantine(t, email_data, reason) ==
    \/ /\ pc[t] = "idle"
       /\ Len(quarantined.items) < MaxQuarantine
       /\ SetThread(t, "quarantine_enter",
                    [NoLocals EXCEPT !.op = "add_to_quarantine", !.inst = loc[t].inst])
       /\ UNCHANGED <<emails, diskEmails, instances, cls, epoch>>
    \/ /\ pc[t] = "quarantine_enter"
       /\ Acquire(t)
       /\ SetThread(t, "quarantine_append", loc[t])
       /\ UNCHANGED <<emails, diskEmails, cls, epoch>>
    \/ /\ pc[t] = "quarantine_append"
       /\ quarantined' = JList(Append(quarantined.items, QuarantineEntry(email_data, reason)))
       /\ pc' = [pc EXCEPT ![t] = "quarantine_save"]
       /\ UNCHANGED <<phase, emails, diskEmails, diskQuarantine, backups, ret,
                      loc, instances, cls, epoch>>
    \/ /\ pc[t] = "quarantine_save"
       /\ Acquire(t)
       /\ diskQuarantine' = QuarantineDocument(quarantined)
       /\ pc' = [pc EXCEPT ![t] = "quarantine_leave"]
       /\ UNCHANGED <<phase, emails, quarantined, diskEmails, backups, ret, loc, cls, epoch>>
    \/ /\ pc[t] = "quarantine_leave"
       /\ Release(t)
       /\ SetThread(t, "idle", [loc[t] EXCEPT !.ret = "None"])
       /\ UNCHANGED <<emails, diskEmails, cls, epoch>>

\* a store call on a handle without _queue_lock: AttributeError at once
ThreadCallUnusable(t) ==
    /\ pc[t] = "idle"
    /\ ~Usable(t)
    /\ SetThread(t, "idle",
                 [NoLocals EXCEPT !.op = "create", !.inst = loc[t].inst,
                                  !.ret = "AttributeError"])
    /\ UNCHANGED <<emails, diskEmails, instances, cls, epoch>>

(***************************************************************************)
(* SpecLive: two threads on an initialized store.  Thread t1 constructs    *)
(* and, on the instance it got, creates a message and quarantines a        *)
(* record; thread t2 resets the singleton and deletes a message on the     *)
(* instance it has held from the start.  A thread that has started a call  *)
(* is scheduled again and again and is not passed over for ever at a lock. *)
(***************************************************************************)
NextLive ==
    \/ ThreadConstruct("t1", "data")
    \/ ThreadResetCall("t2")
    \/ Usable("t1") /\ ThreadCreate("t1", ConcurrentEmail("u2"))
    \/ \E t \in Threads : ThreadSave(t)
    \/ Usable("t2") /\ ThreadDelete("t2", "u1")
    \/ /\ Usable("t1")
       /\ pc["t1"] = "idle" => Len(quarantined.items) < MaxAdded
       /\ ThreadQuarantine("t1", MessyRecord("u1"), << <<"rejected by the caller", "">> >>)
    \/ ThreadCallUnusable("t1")

\* a step of a call that the thread has started
Continue(t) == pc[t] # "idle" /\ NextLive /\ pc'[t] # pc[t]

SpecLive ==
    ConcurrentInit /\ [][NextLive]_vars /\ \A t \in Threads : SF_vars(Continue(t))

\* the thread is at the entry of a `with` block whose lock another thread has
WaitsFor(t, u) ==
    /\ u # t
    /\ \/ /\ pc[t] \in {"create_enter", "update_enter", "delete_enter", "save_snapshot",
                        "quarantine_enter", "quarantine_save", "register_enter"}
          /\ QueueLock(t) = u
       \/ /\ pc[t] \in {"new_enter", "init_enter", "reset_enter"}
          /\ cls.lock = u

(***************************************************************************)
(* C39: no store call can deadlock.  A thread that is inside               *)
(* _execute_with_lock enters it again for the disk write without waiting;  *)
(* no thread holds the class lock and an operations lock at once, and no   *)
(* two threads wait for each other; and under a fair scheduler every call  *)
(* that a thread has started, constructor and reset_instance calls         *)
(* included, returns.                                                      *)
(***************************************************************************)
C39_EveryCallReturns ==
    /\ [](\A t \in Threads :
              /\ (pc[t] \in {"save_snapshot", "quarantine_save"} /\ QueueLock(t) = t)
                     => CanAcquire(t, QueueLock(t))
              /\ ~(cls.lock = t /\ \E i \in 1..Len(instances) : instances[i].queue_lock = t)
              /\ \A u \in Threads : ~(WaitsFor(t, u) /\ WaitsFor(u, t)))
    /\ \A t \in Threads : (pc[t] # "idle") ~> (pc[t] = "idle")

\* one thread is about to write the quarantine document inside the lock it
\* already holds while the other waits for that lock with a delete
C39_Witness ==
    /\ pc["t1"] = "quarantine_save"
    /\ QueueLock("t1") = "t1"
    /\ pc["t2"] = "delete_enter"
    /\ WaitsFor("t2", "t1")

====
